---- MODULE Spec2Model ----
(***************************************************************************)
(* Model of the evaluation harness of peeraponw/agent_benchmark:           *)
(*   evaluation/performance_monitor.py  PerformanceMonitor and its sampler *)
(*   evaluation/base_evaluator.py       BaseEvaluator                      *)
(*   evaluation/evaluator.py            FrameworkEvaluator (orchestrator)  *)
(*   evaluation/metrics/*.py            the QA, RAG and Search suites      *)
(* The orchestrator runs on one thread (variable pc is its position); the  *)
(* sampler threads of the monitor run concurrently with it.                *)
(***************************************************************************)
EXTENDS Integers, Sequences, FiniteSets, TLC

\* ------------------------------------------------------------------ bounds
\* calls the client makes on the orchestrator or on the monitor
MaxCalls == 2
\* calls a client makes on a monitor it uses directly
MaxMonitorCalls == 3
\* sampler threads one monitor object may have spawned
MaxThreads == 2
\* snapshots one monitor may hold
MaxSnapshots == 2
\* test cases in the list given to run_framework_benchmark
MaxCases == 2
\* largest max_retries given to run_framework_benchmark
MaxRetries == 2
\* snapshots in the list a get_metrics call aggregates on its own
MaxSamples == 3
\* significand bits of the floating-point numbers (53 in CPython)
FloatBits == 5
\* length of the result lists given to the aggregation functions
MaxResults == 3
\* calls a client makes on a cost tracker it uses directly
MaxTrackerCalls == 2
\* usage records one tracker holds
MaxRecords == 2
\* the wall clock's last reading, in half microseconds
MaxWall == 8
\* words in a text given to the BLEU metric
MaxTokens == 3
\* largest max_n a BLEU metric is built with
MaxN == 3
\* date-like phrases in a content given to the freshness metric
MaxDates == 2
\* sentences in a context given to _split_context
MaxSentences == 3
\* paragraphs in a content given to _split_content
MaxParagraphs == 2

\* ------------------------------------------------------------------ values
None == "None"
\* what a task function may return, and the messages of what it may raise
Outputs == {"out_a", "out_b"}
Messages == {"boom"}
\* expected outputs a caller may give (None: quality scoring skipped)
Expected == {None, "out_a"}
UseCaseTypes == {"qa", "rag", "search", "general"}
Frameworks == {"fw1", "fw2"}
\* elapsed wall-clock time of one execution, as time.time() differences
Durations == {1}
\* what psutil reports for one sample: (memory_mb, cpu_percent), as floats
Readings == {[memory_mb |-> 16, cpu_percent |-> 8]}
\* the readings of the snapshots given to a get_metrics call on its own
SampleReadings == [memory_mb : {16, 26}, cpu_percent : {0, 8, 26}]
ZeroReading == [memory_mb |-> 0, cpu_percent |-> 0]
EmptyMap == <<>>

VARIABLES
    pc,                  \* position of the orchestrator's thread
    after,               \* where pc goes once a join in stop_monitoring returns
    calls,               \* number of client calls made so far
    enable_performance_monitoring,   \* FrameworkEvaluator.__init__ flag
    evaluation_results,  \* FrameworkEvaluator.evaluation_results
    framework_summaries, \* FrameworkEvaluator.framework_summaries
    mon,                 \* the PerformanceMonitor object in use
    threads,             \* the sampler threads spawned by mon
    est,                 \* locals of evaluate_single_task
    rfb,                 \* locals of run_framework_benchmark
    scope,               \* the with-block in progress
    last,                \* history: the last finished task execution attempt
    history,             \* history: the attempts of the benchmark run, in order
    agg,                 \* inputs and outputs of the aggregation functions
    suite,               \* a metric suite, its call and the call's outcome
    clock,               \* the wall clock, and its reading at the last session start
    captured,            \* per sampler thread: the snapshot captured, not yet appended
    perf,                \* a get_metrics call on its own and what it gave
    tracker,             \* the APIUsageTracker object of the evaluator
    cost,                \* a tracker call on its own and what it gave
    wall,                \* the wall clock as time.time() and datetime.now() read it
    config_manager,      \* the ConfigManager object and its last call
    call                 \* a call of a text function and what it gave

vars == <<pc, after, calls, enable_performance_monitoring, evaluation_results,
          framework_summaries, mon, threads, est, rfb, scope, last, history, agg, suite,
          clock, captured, perf, tracker, cost, wall, config_manager, call>>

orchVars == <<evaluation_results, framework_summaries>>
costVars == <<tracker, cost>>
libVars == <<config_manager, call>>

\* ------------------------------------------------------- small helpers
Max(a, b) == IF a >= b THEN a ELSE b
Min(a, b) == IF a <= b THEN a ELSE b

RECURSIVE SeqSum(_)
SeqSum(s) == IF s = <<>> THEN 0 ELSE Head(s) + SeqSum(Tail(s))

RECURSIVE SeqMax(_)
SeqMax(s) == IF Len(s) = 1 THEN s[1] ELSE Max(Head(s), SeqMax(Tail(s)))

RECURSIVE SeqMin(_)
SeqMin(s) == IF Len(s) = 1 THEN s[1] ELSE Min(Head(s), SeqMin(Tail(s)))

IsPrefix(s, t) == Len(s) <= Len(t) /\ SubSeq(t, 1, Len(s)) = s

Seq2Set(s) == {s[i] : i \in DOMAIN s}

\* ------------------------------------------------ PerformanceMonitor
\* PerformanceMonitor.__init__: idle, no thread, no snapshots, no start time
NewMonitor ==
    [monitoring |-> FALSE, monitor_thread |-> 0, snapshots |-> <<>>,
     start_time |-> None]

NoThreads == [t \in 1..MaxThreads |-> "unborn"]
NoSnapshot == [by |-> 0]
NoneCaptured == [t \in 1..MaxThreads |-> NoSnapshot]
\* the clock when the monitor in use is made: time is counted from there
NewClock == [now |-> 0, session_start |-> 0]

Alive(t) == t # 0 /\ threads[t] \in {"loop", "body", "append", "sleep"}

FreeThreads(th) == {t \in 1..MaxThreads : th[t] = "unborn"}

\* a start_monitoring without the `if self._monitoring: return` guard
start_monitoring_unguarded(m, t) ==
    [m EXCEPT !.monitoring = TRUE, !.snapshots = <<>>, !.start_time = "set", !.monitor_thread = t]

\* start_monitoring on monitor m, spawning thread t: a no-op when monitoring
start_monitoring(m, t) ==
    IF m.monitoring THEN m
    ELSE [m EXCEPT !.monitoring = TRUE, !.snapshots = <<>>, !.start_time = "set",
                   !.monitor_thread = t]

\* the threads after start_monitoring: Thread(target=_monitor_loop).start()
spawn(m, th, t) == IF m.monitoring THEN th ELSE [th EXCEPT ![t] = "loop"]

\* self._start_time = time.time(): the clock is read when a session begins
start_clock(m, c) ==
    IF m.monitoring THEN c ELSE [now |-> c.now + 1, session_start |-> c.now + 1]

\* stop_monitoring up to the join: the flag is cleared
stop_monitoring(m) == IF ~m.monitoring THEN m ELSE [m EXCEPT !.monitoring = FALSE]

\* stop_monitoring joins (with a timeout) only a thread that is alive
MustJoin(m) == m.monitoring /\ Alive(m.monitor_thread)

\* snapshots a sampler has captured and not yet appended
InFlight == {t \in 1..MaxThreads : threads[t] \in {"body", "append"}}

\* a while test that never sees the cleared flag
SamplerTestIgnoringFlag(t) ==
    /\ threads[t] = "loop"
    /\ Len(mon.snapshots) + Cardinality(InFlight) < MaxSnapshots
    /\ threads' = [threads EXCEPT ![t] = "body"]
    /\ UNCHANGED <<libVars, costVars, wall, perf, suite, clock, captured, pc, after, calls,
                   enable_performance_monitoring, orchVars, mon, est, rfb,
                   scope, last, history, agg>>

\* _monitor_loop, the while test (the snapshot bound is tested here, so that a
\* sampler that is past the test can always finish its iteration)
SamplerTest(t) ==
    /\ threads[t] = "loop"
    /\ mon.monitoring => Len(mon.snapshots) + Cardinality(InFlight) < MaxSnapshots
    /\ threads' = [threads EXCEPT ![t] = IF mon.monitoring THEN "body" ELSE "dead"]
    /\ UNCHANGED <<libVars, costVars, wall, perf, suite, clock, captured, pc, after, calls,
                   enable_performance_monitoring, orchVars, mon, est, rfb,
                   scope, last, history, agg>>

\* _capture_snapshot returned: the clock was read and psutil gave a reading
\* (the psutil errors caught inside it give a zero reading)
SamplerCapture(t) ==
    /\ threads[t] = "body"
    /\ \E r \in Readings \cup {ZeroReading} :
          captured' = [captured EXCEPT ![t] =
                          [by |-> t, timestamp |-> clock.now + 1,
                           memory_mb |-> r.memory_mb, cpu_percent |-> r.cpu_percent]]
    /\ clock' = [clock EXCEPT !.now = @ + 1]
    /\ threads' = [threads EXCEPT ![t] = "append"]
    /\ UNCHANGED <<libVars, costVars, wall, perf, suite, pc, after, calls, enable_performance_monitoring,
                   orchVars, mon, est, rfb, scope, last, history, agg>>

\* self._snapshots.append(snapshot), then the thread sleeps
SamplerAppend(t) ==
    /\ threads[t] = "append"
    /\ mon' = [mon EXCEPT !.snapshots = Append(@, captured[t])]
    /\ captured' = [captured EXCEPT ![t] = NoSnapshot]
    /\ threads' = [threads EXCEPT ![t] = "sleep"]
    /\ UNCHANGED <<libVars, costVars, wall, perf, suite, clock, pc, after, calls,
                   enable_performance_monitoring, orchVars, est, rfb, scope,
                   last, history, agg>>

\* _capture_snapshot raised an Exception other than NoSuchProcess/AccessDenied
\* (PerformanceSnapshot rejected a value): `continue`, back to the while test
\* with no sleep
SamplerError(t) ==
    /\ threads[t] = "body"
    /\ threads' = [threads EXCEPT ![t] = "loop"]
    /\ UNCHANGED <<libVars, costVars, wall, perf, suite, clock, captured, pc, after, calls,
                   enable_performance_monitoring, orchVars, mon, est, rfb,
                   scope, last, history, agg>>

\* time.sleep(sampling_interval) returns
SamplerWake(t) ==
    /\ threads[t] = "sleep"
    /\ threads' = [threads EXCEPT ![t] = "loop"]
    /\ UNCHANGED <<libVars, costVars, wall, perf, suite, clock, captured, pc, after, calls,
                   enable_performance_monitoring, orchVars, mon, est, rfb,
                   scope, last, history, agg>>

\* Thread.join(timeout=1.0) returns: the thread ended or the timeout expired
JoinReturns ==
    /\ pc = "join"
    /\ pc' = after
    /\ after' = None
    /\ UNCHANGED <<libVars, costVars, wall, perf, suite, clock, captured, calls,
                   enable_performance_monitoring, orchVars, mon, threads, est,
                   rfb, scope, last, history, agg>>

\* ------------------------------------------------- float arithmetic
\* Python floats are binary floating-point numbers: a number is kept with
\* FloatBits significant bits and every operation rounds its exact result to
\* the nearest such number, ties to the even significand. Numbers are counted
\* here in units of the smallest step, so a float is a natural number n whose
\* binary form has at most FloatBits significant bits.
RECURSIVE Pow2(_)
Pow2(n) == IF n = 0 THEN 1 ELSE 2 * Pow2(n - 1)

\* the spacing of the floats around n
RECURSIVE Ulp(_)
Ulp(n) == IF n < Pow2(FloatBits) THEN 1 ELSE 2 * Ulp(n \div 2)

\* the float nearest to the quotient n / d
RoundQuot(n, d) ==
    LET u == Ulp(n \div d)
        m == n \div (d * u)
        twice_rest == 2 * (n - m * d * u)
    IN  IF twice_rest > d * u \/ (twice_rest = d * u /\ m % 2 = 1)
        THEN (m + 1) * u
        ELSE m * u

FAdd(a, b) == RoundQuot(a + b, 1)
FDiv(a, n) == RoundQuot(a, n)

\* sum(values): 0 + values[0] + values[1] + ..., each addition rounded
RECURSIVE FSum(_)
FSum(values) ==
    IF values = <<>> THEN 0
    ELSE FAdd(FSum(SubSeq(values, 1, Len(values) - 1)), values[Len(values)])

\* PerformanceMetrics(...): the validators reject an average above its peak
PerformanceMetrics(fields) ==
    IF \/ fields.average_memory_mb > fields.peak_memory_mb
       \/ fields.average_cpu_percent > fields.peak_cpu_percent
    THEN [kind |-> "raise", msg |-> "ValidationError"]
    ELSE [kind |-> "return", value |-> fields]

\* get_metrics that reports the elapsed time of a session without snapshots
get_metrics_timing_empty_session(m, elapsed) ==
    PerformanceMetrics(
        [execution_time |-> IF m.start_time = None THEN 0 ELSE elapsed,
         peak_memory_mb |-> 0, average_memory_mb |-> 0, peak_cpu_percent |-> 0,
         average_cpu_percent |-> 0, snapshots |-> <<>>])

\* get_metrics called when time.time() - self._start_time is elapsed:
\* zero-valued without snapshots or start time, else the peaks and averages
get_metrics(m, elapsed) ==
    IF m.snapshots = <<>> \/ m.start_time = None
    THEN PerformanceMetrics(
             [execution_time |-> 0, peak_memory_mb |-> 0, average_memory_mb |-> 0,
              peak_cpu_percent |-> 0, average_cpu_percent |-> 0,
              snapshots |-> <<>>])
    ELSE LET memory_values == [i \in 1..Len(m.snapshots) |-> m.snapshots[i].memory_mb]
             cpu_values == [i \in 1..Len(m.snapshots) |-> m.snapshots[i].cpu_percent]
         IN  PerformanceMetrics(
                 [execution_time |-> elapsed,
                  peak_memory_mb |-> SeqMax(memory_values),
                  average_memory_mb |-> FDiv(FSum(memory_values), Len(memory_values)),
                  peak_cpu_percent |-> SeqMax(cpu_values),
                  average_cpu_percent |-> FDiv(FSum(cpu_values), Len(cpu_values)),
                  snapshots |-> m.snapshots])

\* ------------------------------------------------------ task functions
\* execution_func(input_data) returns a value or raises an Exception
TaskOutcomes ==
    [kind : {"return"}, value : Outputs] \cup [kind : {"raise"}, msg : Messages]

\* what one metric-suite call does: raises (Raises), or returns a score
Raises == -1
SuiteOutcomes == {Raises, 1}

\* keyword context given with a task: which of the optional inputs are present
KwargFlags == [docs : BOOLEAN, query_context : BOOLEAN, search_results : BOOLEAN]

Merge(f, g) == [k \in DOMAIN f \cup DOMAIN g |-> IF k \in DOMAIN g THEN g[k] ELSE f[k]]

\* UseCaseResult(...) with success=True
SuccessResult(framework_name, use_case_name, execution_time, memory_usage, cpu_usage, quality_metrics, raw_output) ==
    [framework_name |-> framework_name, use_case_name |-> use_case_name,
     execution_time |-> execution_time, memory_usage |-> memory_usage,
     cpu_usage |-> cpu_usage, api_costs |-> EmptyMap,
     quality_metrics |-> quality_metrics, raw_output |-> raw_output,
     success |-> TRUE, error_message |-> None]

\* ErrorResult without error_message=str(e): the field keeps its default
ErrorResultNoMessage(framework_name, use_case_name, execution_time, msg) ==
    [framework_name |-> framework_name, use_case_name |-> use_case_name,
     execution_time |-> execution_time, memory_usage |-> 0,
     cpu_usage |-> 0, api_costs |-> EmptyMap,
     quality_metrics |-> EmptyMap, raw_output |-> None,
     success |-> FALSE, error_message |-> None]

\* UseCaseResult(...) of an except clause: success=False, error_message=str(e)
ErrorResult(framework_name, use_case_name, execution_time, msg) ==
    [framework_name |-> framework_name, use_case_name |-> use_case_name,
     execution_time |-> execution_time, memory_usage |-> 0,
     cpu_usage |-> 0, api_costs |-> EmptyMap,
     quality_metrics |-> EmptyMap, raw_output |-> None,
     success |-> FALSE, error_message |-> msg]

\* an exception that leaves the operation instead of a result
Propagated(msg) == [exc |-> msg]
IsRecordOfResult(r) == "success" \in DOMAIN r

NoTask == [kind |-> "none"]
NoEst == [framework_name |-> None, task |-> NoTask]
NoRfb == [framework_name |-> None]
NoScope == [via |-> None]
NoLast == [op |-> None, task |-> NoTask, failed_step |-> None]
NoSuite == [op |-> None]
NoAgg == [op |-> None]

\* ------------------------------------ BaseEvaluator.execute_with_monitoring
\* What happens inside one call: psutil before the try block (pre), the task
\* function, evaluate_response_quality (run only with an expected output) and
\* measure_performance; each may raise.
EwmOutcomes ==
    [pre : {"ok", "raise"}, task : TaskOutcomes, quality : SuiteOutcomes,
     perf : {"ok", "raise"}, memory_usage : {0}, cpu_usage : {3}]

\* the outcomes drawn for the attempts of a benchmark run
BenchOutcomes ==
    {o \in EwmOutcomes : (o.task.kind = "return" => o.task.value = "out_a")
                         /\ o.perf = "ok"}

\* the body of the try block after the task returned: the message of the first
\* exception raised in it, or None
EwmLateError(expected_output, o) ==
    IF expected_output # None /\ o.quality = Raises THEN "metric_error"
    ELSE IF o.perf = "raise" THEN "perf_error"
    ELSE None

execute_with_monitoring(framework_name, use_case_name, expected_output, o, dur) ==
    IF o.pre = "raise" THEN Propagated("psutil_error")
    ELSE IF o.task.kind = "raise"
    THEN ErrorResult(framework_name, use_case_name, dur, o.task.msg)
    ELSE IF EwmLateError(expected_output, o) # None
    THEN ErrorResult(framework_name, use_case_name, dur,
                     EwmLateError(expected_output, o))
    ELSE SuccessResult(framework_name, use_case_name, dur, o.memory_usage,
                       o.cpu_usage,
                       IF expected_output # None
                       THEN [k \in {"accuracy"} |-> o.quality] ELSE EmptyMap,
                       o.task.value)

\* whether execution_func was called in an attempt with outcome o
TaskRan(o) == o.pre = "ok"

\* the step of the attempt that raised: "pre", "task", "metric", "perf" or None
FailedStep(expected_output, o) ==
    IF o.pre = "raise" THEN "pre"
    ELSE IF o.task.kind = "raise" THEN "task"
    ELSE IF EwmLateError(expected_output, o) = "metric_error" THEN "metric"
    ELSE IF EwmLateError(expected_output, o) = "perf_error" THEN "perf"
    ELSE None

\* a client calls execute_with_monitoring of an evaluator directly
EwmCall ==
    /\ pc = "idle"
    /\ calls < MaxCalls
    /\ calls' = calls + 1
    /\ \E fw \in Frameworks, ex \in Expected, o \in EwmOutcomes, dur \in Durations :
          last' = [op |-> "execute_with_monitoring",
                   task |-> IF TaskRan(o) THEN o.task ELSE NoTask,
                   failed_step |-> FailedStep(ex, o),
                   result |-> execute_with_monitoring(fw, "task", ex, o, dur)]
    /\ UNCHANGED <<libVars, costVars, wall, perf, suite, clock, captured, pc, after,
                   enable_performance_monitoring, orchVars, mon, threads, est,
                   rfb, scope, history, agg>>

\* ------------------------------ FrameworkEvaluator._calculate_quality_metrics
\* the suite calls _calculate_quality_metrics makes, in order, for a use case
SuiteCalls(use_case_type, kw) ==
    CASE use_case_type = "qa" -> <<"qa">>
      [] use_case_type = "rag" ->
            (IF kw.docs THEN <<"retrieval">> ELSE <<>>)
            \o (IF kw.query_context THEN <<"generation">> ELSE <<>>)
      [] use_case_type = "search" ->
            IF kw.search_results THEN <<"search">> ELSE <<>>
      [] OTHER -> <<>>

\* quality_metrics.update(...) for the suite calls in order; the first call that
\* raises ends the try block and what was collected before it is returned
RECURSIVE CollectScores(_, _, _)
CollectScores(callseq, outs, acc) ==
    IF callseq = <<>> THEN acc
    ELSE IF Head(outs) = Raises THEN acc
    ELSE CollectScores(Tail(callseq), Tail(outs),
                       Merge(acc, [k \in {Head(callseq)} |-> Head(outs)]))

\* _calculate_quality_metrics: never raises
calculate_quality_metrics(use_case_type, expected, kw, outs) ==
    IF expected = None THEN EmptyMap
    ELSE CollectScores(SuiteCalls(use_case_type, kw), outs, EmptyMap)

NoCall == [op |-> None]

\* --------------------------------------------------------- APIUsageTracker
\* Money is counted in 1e-9 USD and a rate in 1e-6 USD per 1K tokens, so that
\* (tokens / 1000) * rate is the whole number tokens * rate. The wall clock
\* counts half microseconds: time.time() reads it as it is, a datetime holds
\* whole microseconds.
APIProvider == {"OPENROUTER", "CUSTOM"}

\* APIProvider.value
ProviderValue(p) == IF p = "OPENROUTER" THEN "openrouter" ELSE "custom"

\* str.lower() on the provider names and format names a caller gives
Lower(s) ==
    CASE s = "OpenRouter" -> "openrouter"
      [] s = "JSON" -> "json"
      [] s = "The" -> "the"
      [] OTHER -> s

\* str.strip() on the model names a caller gives
Strip(s) ==
    CASE s = " " -> ""
      [] s = " custom-model" -> "custom-model"
      [] OTHER -> s

\* one entry of the pricing table: {"input": i, "output": o}
Pricing(i, o) == [input |-> i, output |-> o]

OpenRouterModels ==
    {"anthropic/claude-3.5-sonnet", "anthropic/claude-3-sonnet",
     "anthropic/claude-3-haiku", "openai/gpt-4", "openai/gpt-4-turbo",
     "openai/gpt-4o", "openai/gpt-4o-mini", "openai/gpt-3.5-turbo",
     "google/gemini-pro", "google/gemini-1.5-pro", "google/gemini-1.5-flash",
     "meta-llama/llama-3.1-70b-instruct", "meta-llama/llama-3.1-8b-instruct",
     "deepseek/deepseek-r1", "deepseek/deepseek-chat",
     "mistralai/mistral-large", "mistralai/mistral-medium",
     "cohere/command-r-plus", "cohere/command-r"}

OpenRouterPricing ==
    [m \in OpenRouterModels |->
        CASE m = "anthropic/claude-3.5-sonnet" -> Pricing(3000, 15000)
          [] m = "anthropic/claude-3-sonnet" -> Pricing(3000, 15000)
          [] m = "anthropic/claude-3-haiku" -> Pricing(250, 1250)
          [] m = "openai/gpt-4" -> Pricing(30000, 60000)
          [] m = "openai/gpt-4-turbo" -> Pricing(10000, 30000)
          [] m = "openai/gpt-4o" -> Pricing(5000, 15000)
          [] m = "openai/gpt-4o-mini" -> Pricing(150, 600)
          [] m = "openai/gpt-3.5-turbo" -> Pricing(1500, 2000)
          [] m = "google/gemini-pro" -> Pricing(500, 1500)
          [] m = "google/gemini-1.5-pro" -> Pricing(3500, 10500)
          [] m = "google/gemini-1.5-flash" -> Pricing(350, 1050)
          [] m = "meta-llama/llama-3.1-70b-instruct" -> Pricing(900, 900)
          [] m = "meta-llama/llama-3.1-8b-instruct" -> Pricing(180, 180)
          [] m = "deepseek/deepseek-r1" -> Pricing(1400, 2800)
          [] m = "deepseek/deepseek-chat" -> Pricing(140, 280)
          [] m = "mistralai/mistral-large" -> Pricing(3000, 9000)
          [] m = "mistralai/mistral-medium" -> Pricing(2700, 8100)
          [] m = "cohere/command-r-plus" -> Pricing(3000, 15000)
          [] OTHER -> Pricing(500, 1500)]

CustomPricing == [m \in {"custom-model"} |-> Pricing(1000, 2000)]

\* _initialize_pricing
initialize_pricing ==
    [p \in APIProvider |->
        IF p = "OPENROUTER" THEN OpenRouterPricing ELSE CustomPricing]

\* self.cost_tracker of an evaluator made with enable_cost_tracking=False
NoTracker == [kind |-> "none"]

\* APIUsageTracker.__init__
NewTracker == [usage_records |-> <<>>, pricing_data |-> initialize_pricing]

\* dict.get(k, default)
Get(d, k, default) == IF k \in DOMAIN d THEN d[k] ELSE default

Returned(v) == [kind |-> "return", value |-> v]
Raised(msg) == [kind |-> "raise", msg |-> msg]

\* datetime.now(): the clock reading cut to whole microseconds
DatetimeNow(w) == w \div 2

\* datetime.fromtimestamp(t): the reading rounded to the nearest microsecond,
\* a half to the even one
FromTimestamp(t) ==
    IF t % 2 = 0 THEN t \div 2
    ELSE IF (t \div 2) % 2 = 0 THEN t \div 2 ELSE t \div 2 + 1

\* APIUsage(...): the field constraints and validate_model_name; at is not a
\* field: it keeps the clock reading the timestamp was made from
APIUsage(provider, model, input_tokens, output_tokens, w) ==
    IF \/ provider \notin APIProvider
       \/ model = ""
       \/ input_tokens < 0
       \/ output_tokens < 0
       \/ Strip(model) = ""
    THEN Raised("ValidationError")
    ELSE Returned([provider |-> provider, model |-> Strip(model),
                   input_tokens |-> input_tokens,
                   output_tokens |-> output_tokens,
                   timestamp |-> DatetimeNow(w), at |-> w])

\* the provider record_usage stores for the provider it was given: a string is
\* turned into OPENROUTER or, whatever else it says, into CUSTOM
UsageProvider(provider) ==
    IF provider \notin APIProvider
    THEN IF Lower(provider) = "openrouter" THEN "OPENROUTER" ELSE "CUSTOM"
    ELSE provider

\* a variant of record_usage that puts the new record first
record_usage_at_front(tr, provider, model, input_tokens, output_tokens, w) ==
    LET usage == APIUsage(UsageProvider(provider), model, input_tokens,
                          output_tokens, w) IN
    IF usage.kind = "raise" THEN [out |-> usage, tracker |-> tr]
    ELSE [out |-> usage,
          tracker |-> [tr EXCEPT !.usage_records = <<usage.value>> \o @]]

\* record_usage: what it returns or raises (out) and the tracker afterwards
record_usage(tr, provider, model, input_tokens, output_tokens, w) ==
    LET usage == APIUsage(UsageProvider(provider), model, input_tokens,
                          output_tokens, w) IN
    IF usage.kind = "raise" THEN [out |-> usage, tracker |-> tr]
    ELSE [out |-> usage,
          tracker |-> [tr EXCEPT !.usage_records = Append(@, usage.value)]]

\* 0.0001 USD, the difference validate_total_cost allows
CostTolerance == 100000

Abs(x) == IF x < 0 THEN -x ELSE x

\* CostBreakdown(...): the ge=0.0 constraints and validate_total_cost
CostBreakdown(fields) ==
    IF \/ fields.input_cost < 0
       \/ fields.output_cost < 0
       \/ fields.total_cost < 0
       \/ Abs(fields.total_cost - (fields.input_cost + fields.output_cost))
             > CostTolerance
       \/ fields.input_rate_per_1k < 0
       \/ fields.output_rate_per_1k < 0
    THEN Raised("ValidationError")
    ELSE Returned(fields)

ZeroPricing == Pricing(0, 0)

\* calculate_cost: the breakdown it returns, or what CostBreakdown raises
calculate_cost(pricing_data, usage) ==
    LET provider_pricing == Get(pricing_data, usage.provider, EmptyMap)
        model_pricing == Get(provider_pricing, usage.model, ZeroPricing)
        input_rate == model_pricing.input
        output_rate == model_pricing.output
        input_cost == usage.input_tokens * input_rate
        output_cost == usage.output_tokens * output_rate
        total_cost == input_cost + output_cost IN
    CostBreakdown([provider |-> usage.provider, model |-> usage.model,
                   input_cost |-> input_cost, output_cost |-> output_cost,
                   total_cost |-> total_cost,
                   input_tokens |-> usage.input_tokens,
                   output_tokens |-> usage.output_tokens,
                   input_rate_per_1k |-> input_rate,
                   output_rate_per_1k |-> output_rate])

\* no time given for a start_time or end_time filter (None)
NoTime == -1

\* _filter_records: a filter that is None, or an empty model name, is not applied
filter_records(usage_records, provider, model, start_time, end_time) ==
    LET Keep(r) ==
            /\ provider # None => r.provider = provider
            /\ model \notin {None, ""} => r.model = model
            /\ start_time # NoTime => r.timestamp >= start_time
            /\ end_time # NoTime => r.timestamp <= end_time IN
    SelectSeq(usage_records, Keep)

\* the calculate_cost outcomes of the records of a list, in order
CostsOf(pricing_data, records) ==
    [i \in 1..Len(records) |-> calculate_cost(pricing_data, records[i])]

AnyRaised(outcomes) == \E i \in DOMAIN outcomes : outcomes[i].kind = "raise"

\* the sum of the total_cost of the breakdowns of a list of records
TotalCost(pricing_data, records) ==
    SeqSum([i \in 1..Len(records) |->
               calculate_cost(pricing_data, records[i]).value.total_cost])

\* get_total_cost
get_total_cost(tr, provider, model, start_time, end_time) ==
    LET filtered_records ==
            filter_records(tr.usage_records, provider, model, start_time, end_time) IN
    IF AnyRaised(CostsOf(tr.pricing_data, filtered_records))
    THEN Raised("ValidationError")
    ELSE Returned(TotalCost(tr.pricing_data, filtered_records))

\* the records of a list that satisfy a test, as a list
Group(records, Test(_)) == SelectSeq(records, Test)

\* one group of get_usage_summary: requests, tokens and cost of its records
GroupStats(pricing_data, records) ==
    [requests |-> Len(records),
     input_tokens |-> SeqSum([i \in 1..Len(records) |-> records[i].input_tokens]),
     output_tokens |-> SeqSum([i \in 1..Len(records) |-> records[i].output_tokens]),
     cost |-> TotalCost(pricing_data, records)]

\* the first record of a list with the given model name
FirstOfModel(records, m) ==
    records[CHOOSE i \in 1..Len(records) :
               /\ records[i].model = m
               /\ \A j \in 1..(i - 1) : records[j].model # m]

\* get_usage_summary
get_usage_summary(tr, provider, model, start_time, end_time) ==
    LET filtered_records ==
            filter_records(tr.usage_records, provider, model, start_time, end_time)
        OfProvider(p) == LET T(r) == ProviderValue(r.provider) = p IN
                         Group(filtered_records, T)
        OfModel(m) == LET T(r) == r.model = m IN Group(filtered_records, T)
        stamps == [i \in 1..Len(filtered_records) |-> filtered_records[i].timestamp] IN
    IF filtered_records = <<>>
    THEN Returned([total_requests |-> 0, total_input_tokens |-> 0,
                   total_output_tokens |-> 0, total_cost |-> 0,
                   providers |-> EmptyMap, models |-> EmptyMap])
    ELSE IF AnyRaised(CostsOf(tr.pricing_data, filtered_records))
    THEN Raised("ValidationError")
    ELSE Returned(
        [total_requests |-> Len(filtered_records),
         total_input_tokens |->
             SeqSum([i \in 1..Len(filtered_records) |->
                        filtered_records[i].input_tokens]),
         total_output_tokens |->
             SeqSum([i \in 1..Len(filtered_records) |->
                        filtered_records[i].output_tokens]),
         total_cost |-> TotalCost(tr.pricing_data, filtered_records),
         providers |->
             [p \in {ProviderValue(filtered_records[i].provider) :
                        i \in 1..Len(filtered_records)} |->
                 GroupStats(tr.pricing_data, OfProvider(p))],
         models |->
             [m \in {filtered_records[i].model : i \in 1..Len(filtered_records)} |->
                 Merge(GroupStats(tr.pricing_data, OfModel(m)),
                       [k \in {"provider"} |->
                           ProviderValue(FirstOfModel(filtered_records, m).provider)])],
         time_range |-> [start |-> SeqMin(stamps), end |-> SeqMax(stamps)]])

\* compare_providers: models is None or a list, here the set of its members;
\* an empty list compares every model
compare_providers(pricing_data, input_tokens, output_tokens, models) ==
    [v \in {ProviderValue(p) : p \in DOMAIN pricing_data} |->
        LET provider == CHOOSE p \in DOMAIN pricing_data : ProviderValue(p) = v
            provider_pricing == pricing_data[provider] IN
        [model \in {m \in DOMAIN provider_pricing : models # {} => m \in models} |->
            [input_cost |-> input_tokens * provider_pricing[model].input,
             output_cost |-> output_tokens * provider_pricing[model].output,
             total_cost |-> input_tokens * provider_pricing[model].input
                            + output_tokens * provider_pricing[model].output,
             input_rate |-> provider_pricing[model].input,
             output_rate |-> provider_pricing[model].output]]]

\* _export_json and _export_csv: one entry per record with its cost; the
\* JSON form adds the summary and the pricing table
export_usage_data(tr, format_type) ==
    LET costs == CostsOf(tr.pricing_data, tr.usage_records)
        rows == [i \in 1..Len(tr.usage_records) |->
                    [usage |-> tr.usage_records[i], cost |-> costs[i].value]] IN
    IF Lower(format_type) \notin {"json", "csv"}
    THEN Raised("ValueError")
    ELSE IF AnyRaised(costs) THEN Raised("ValidationError")
    ELSE IF Lower(format_type) = "json"
    THEN Returned([usage_records |-> rows,
                   summary |-> get_usage_summary(tr, None, None, NoTime, NoTime).value,
                   pricing_data |-> tr.pricing_data])
    ELSE Returned([usage_records |-> rows])

\* update_pricing: the pricing table afterwards
update_pricing(pricing_data, provider, model, input_rate, output_rate) ==
    LET known == IF provider \in DOMAIN pricing_data THEN pricing_data
                 ELSE Merge(pricing_data, [p \in {provider} |-> EmptyMap]) IN
    [known EXCEPT ![provider] =
        Merge(@, [m \in {model} |-> Pricing(input_rate, output_rate)])]

\* FrameworkEvaluator._get_recent_api_costs: cost per provider of the records
\* stamped at or after the start time, or what get_usage_summary raises
get_recent_api_costs(tr, start_time) ==
    LET start_datetime == FromTimestamp(start_time)
        summary == get_usage_summary(tr, None, None, start_datetime, NoTime) IN
    IF summary.kind = "raise" THEN summary
    ELSE Returned([p \in DOMAIN summary.value.providers |->
                      summary.value.providers[p].cost])

\* -------------------------------------- FrameworkEvaluator.evaluate_single_task
\* the monitor evaluate_single_task makes and starts before the task
EstStartMonitor == start_monitoring(NewMonitor, 1)

\* the call up to execution_func: a new monitor is made and started
EstCall ==
    /\ pc = "idle"
    /\ calls < MaxCalls
    /\ calls' = calls + 1
    /\ wall' = wall + 2
    /\ \E fw \in {"fw1"} :
          est' = [framework_name |-> fw, use_case_name |-> "task", task |-> NoTask,
                  start_time |-> wall', end_time |-> NoTime,
                  perf_metrics |-> NoTask, execution_time |-> 0]
    /\ IF enable_performance_monitoring
       THEN /\ mon' = EstStartMonitor
            /\ threads' = spawn(NewMonitor, NoThreads, 1)
            /\ clock' = start_clock(NewMonitor, clock)
       ELSE UNCHANGED <<mon, threads, clock>>
    /\ pc' = "est_task"
    /\ UNCHANGED <<libVars, costVars, perf, suite, captured, after, enable_performance_monitoring,
                   orchVars, rfb, scope, last, history, agg>>

\* raw_output = execution_func(input_data): returns or raises
EstTask ==
    /\ pc = "est_task"
    /\ \E o \in TaskOutcomes :
          /\ est' = [est EXCEPT !.task = o]
          /\ pc' = IF o.kind = "return" THEN "est_stop" ELSE "est_except"
    /\ UNCHANGED <<libVars, costVars, wall, perf, suite, clock, captured, after, calls,
                   enable_performance_monitoring, orchVars, mon, threads, rfb,
                   scope, last, history, agg>>

\* EstStopMonitor without the stop_monitoring call of the except clause
EstStopMonitorOnSuccessOnly(m, raised) == IF raised THEN m ELSE stop_monitoring(m)

\* the monitor after the stop_monitoring call of evaluate_single_task, made
\* after the task returned (raised = FALSE) or in the except clause
EstStopMonitor(m, raised) == stop_monitoring(m)

\* performance_monitor.stop_monitoring(), on the success and on the except path
EstStop ==
    /\ pc \in {"est_stop", "est_except"}
    /\ LET cont == IF pc = "est_stop" THEN "est_finish" ELSE "est_fail" IN
       IF enable_performance_monitoring
       THEN /\ mon' = EstStopMonitor(mon, pc = "est_except")
            /\ IF MustJoin(mon) /\ ~mon'.monitoring
               THEN pc' = "join" /\ after' = cont
               ELSE pc' = cont /\ after' = after
       ELSE pc' = cont /\ UNCHANGED <<mon, after>>
    /\ UNCHANGED <<libVars, costVars, wall, perf, suite, clock, captured, calls,
                   enable_performance_monitoring, orchVars, threads, est, rfb,
                   scope, last, history, agg>>

\* what _calculate_quality_metrics may give for a task: every use case type,
\* expected output, keyword context and outcome of the two suite calls
EstQualityMetrics ==
    {calculate_quality_metrics(uct, ex, kw, outs) :
        uct \in UseCaseTypes, ex \in Expected, kw \in KwargFlags,
        outs \in [1..2 -> SuiteOutcomes]}

\* perf_metrics: what performance_monitor.get_metrics() gave, or None (here
\* NoTask) without a monitor
EstPerfMetrics(m, dur) ==
    IF enable_performance_monitoring THEN get_metrics(m, dur) ELSE NoTask

\* the record evaluate_single_task builds after a task that returned
EstSuccessRecord(e, perf_metrics, dur, quality_metrics) ==
    SuccessResult(e.framework_name, e.use_case_name, dur,
                  IF perf_metrics.kind = "return"
                  THEN perf_metrics.value.peak_memory_mb ELSE 0,
                  IF perf_metrics.kind = "return"
                  THEN perf_metrics.value.average_cpu_percent ELSE 0,
                  quality_metrics, e.task.value)

\* the record evaluate_single_task builds in its except clause
EstErrorRecord(e, dur) ==
    ErrorResult(e.framework_name, e.use_case_name, dur, e.task.msg)

\* self.evaluation_results.append(result) and the return statement
EstAppend(result, failed_step) ==
    /\ evaluation_results' = Append(evaluation_results, result)
    /\ last' = [op |-> "evaluate_single_task", task |-> est.task,
                failed_step |-> failed_step, result |-> result]
    /\ pc' = "est_return"

\* get_metrics and execution_time = time.time() - start_time. An exception of
\* get_metrics is handled by the except clause, whose stop_monitoring call
\* finds the monitor stopped: the error record, the append and the return.
\* Without a cost tracker nothing that follows reads shared state, and the
\* quality metrics, the record, the append and the return are part of the step.
EstFinish ==
    /\ pc = "est_finish"
    /\ \E dur \in Durations :
       \E perf_metrics \in {EstPerfMetrics(mon, dur)} :
          IF perf_metrics.kind = "raise"
          THEN /\ EstAppend(ErrorResult(est.framework_name, est.use_case_name,
                                        dur, perf_metrics.msg), "get_metrics")
               /\ wall' = wall + 2
               /\ UNCHANGED est
          ELSE /\ wall' = wall + 2
               /\ IF tracker = NoTracker
                  THEN /\ \E quality_metrics \in EstQualityMetrics :
                             EstAppend(EstSuccessRecord(est, perf_metrics, dur,
                                                        quality_metrics), None)
                       /\ UNCHANGED est
                  ELSE /\ est' = [est EXCEPT !.perf_metrics = perf_metrics,
                                             !.execution_time = dur,
                                             !.end_time = wall']
                       /\ pc' = "est_result"
                       /\ UNCHANGED <<evaluation_results, last>>
    /\ UNCHANGED <<libVars, costVars, perf, suite, clock, captured, after, calls,
                   enable_performance_monitoring, framework_summaries, mon,
                   threads, rfb, scope, history, agg>>

\* api_costs = self._get_recent_api_costs(start_time), or {} without a tracker
EstApiCosts(tr, start_time) == get_recent_api_costs(tr, start_time)

\* with a cost tracker: quality metrics, the API costs since the start, the
\* result record, the append and the return; the use case type, expected output and keyword
\* context were given with the call and are first read here. An exception of
\* the cost summary is handled by the except clause.
EstResult ==
    /\ pc = "est_result"
    /\ \E api_costs \in {EstApiCosts(tracker, est.start_time)},
          quality_metrics \in EstQualityMetrics :
          LET raised == api_costs.kind = "raise"
              result ==
                  IF raised
                  THEN ErrorResult(est.framework_name, est.use_case_name,
                                   est.execution_time, api_costs.msg)
                  ELSE [EstSuccessRecord(est, est.perf_metrics,
                                         est.execution_time, quality_metrics)
                           EXCEPT !.api_costs = api_costs.value] IN
          /\ EstAppend(result, IF raised THEN "api_costs" ELSE None)
          /\ wall' = IF raised THEN wall + 2 ELSE wall
    /\ UNCHANGED <<libVars, costVars, perf, suite, clock, captured, after, calls,
                   enable_performance_monitoring, framework_summaries, mon,
                   threads, est, rfb, scope, history, agg>>

\* the except clause after stop_monitoring: the error record, append, return
EstFail ==
    /\ pc = "est_fail"
    /\ \E dur \in Durations :
          LET result == EstErrorRecord(est, dur) IN
          /\ evaluation_results' = Append(evaluation_results, result)
          /\ last' = [op |-> "evaluate_single_task", task |-> est.task,
                      failed_step |-> "task", result |-> result]
    /\ pc' = "est_return"
    /\ wall' = wall + 2
    /\ UNCHANGED <<libVars, costVars, perf, suite, clock, captured, after, calls,
                   enable_performance_monitoring, framework_summaries, mon,
                   threads, est, rfb, scope, history, agg>>

\* the caller has the result; the monitor, a local of the call, is dropped
EstReturn ==
    /\ pc = "est_return"
    /\ pc' = "idle"
    /\ est' = NoEst
    /\ mon' = NewMonitor
    /\ threads' = NoThreads
    /\ clock' = NewClock
    /\ captured' = NoneCaptured
    /\ UNCHANGED <<libVars, costVars, wall, perf, suite, after, calls, enable_performance_monitoring,
                   orchVars, rfb, scope, last, history, agg>>

\* ------------------------------------------- result aggregation (summaries)
\* a quotient a/b of two numbers, kept exact as the pair <<a, b>>
Quot(a, b) == <<a, b>>
Zero == <<0, 1>>
QuotEq(x, y) == x[1] * y[2] = y[1] * x[2]
QuotLess(x, y) == x[1] * y[2] < y[1] * x[2]

\* sum(d.values()) of a dict
RECURSIVE MapSum(_)
MapSum(f) ==
    IF DOMAIN f = {} THEN 0
    ELSE LET k == CHOOSE x \in DOMAIN f : TRUE IN
         f[k] + MapSum([x \in DOMAIN f \ {k} |-> f[x]])

Column(rs, field) == [i \in 1..Len(rs) |-> rs[i][field]]
IsSuccess(r) == r.success

\* SuccessfulResults without the `if r.success` filter
AllResultsAsSuccessful(results) == results

\* [r for r in results if r.success]
SuccessfulResults(results) == SelectSeq(results, IsSuccess)

\* the union of the quality metric names of the results
AllMetrics(rs) == UNION {DOMAIN rs[i].quality_metrics : i \in 1..Len(rs)}

\* [r.quality_metrics[metric] for r in rs if metric in r.quality_metrics]
RECURSIVE Scores(_, _)
Scores(rs, metric) ==
    IF rs = <<>> THEN <<>>
    ELSE (IF metric \in DOMAIN Head(rs).quality_metrics
          THEN <<Head(rs).quality_metrics[metric]>> ELSE <<>>)
         \o Scores(Tail(rs), metric)

\* sum(x)/len(x) if x else 0.0
Average(xs) == IF xs = <<>> THEN Zero ELSE Quot(SeqSum(xs), Len(xs))

\* FrameworkEvaluator._calculate_framework_summary
calculate_framework_summary(framework_name, results) ==
    IF results = <<>> THEN [success_rate |-> Zero, total_tests |-> 0]
    ELSE LET successful_results == SuccessfulResults(results) IN
         [framework_name |-> framework_name,
          total_tests |-> Len(results),
          successful_tests |-> Len(successful_results),
          success_rate |-> Quot(Len(successful_results), Len(results)),
          average_execution_time |-> Average(Column(successful_results, "execution_time")),
          average_memory_usage |-> Average(Column(successful_results, "memory_usage")),
          average_cpu_usage |-> Average(Column(successful_results, "cpu_usage")),
          total_api_costs |->
              SeqSum([i \in 1..Len(successful_results) |->
                         MapSum(successful_results[i].api_costs)]),
          quality_metrics |->
              [metric \in AllMetrics(successful_results) |->
                  LET scores == Scores(successful_results, metric) IN
                  [average |-> Average(scores), min |-> SeqMin(scores),
                   max |-> SeqMax(scores), count |-> Len(scores)]]]

\* ----------------------------------- FrameworkEvaluator.run_framework_benchmark
\* test_case.get('name', f'test_{i}'): the cases of a list have distinct names
CaseName(i) == <<"case", i>>

TestCaseLists ==
    UNION {[1..n -> [expected_output : Expected]] : n \in 0..MaxCases}

\* one attempt of a test case: what execute_with_monitoring gives for it
Attempt(l, case, o, dur) ==
    execute_with_monitoring(l.framework_name, CaseName(case),
                            l.test_cases[case].expected_output, o, dur)

\* FirstPassStep of a loop that a failed attempt ends
FirstPassStepUntilFailure(l, r) ==
    [l EXCEPT !.results = IF IsRecordOfResult(r) THEN Append(@, r) ELSE @,
              !.failed_cases =
                  IF IsRecordOfResult(r) /\ r.success THEN @
                  ELSE Append(@, [case |-> l.i, retry_count |-> 0]),
              !.i = IF IsRecordOfResult(r) /\ r.success THEN @ + 1
                    ELSE Len(l.test_cases) + 1]

\* the first loop's handling of what an attempt of case i gave: a record is
\* appended to results; a failed record or an exception puts the case on
\* failed_cases with retry count 0
FirstPassStep(l, r) ==
    [l EXCEPT !.results = IF IsRecordOfResult(r) THEN Append(@, r) ELSE @,
              !.failed_cases =
                  IF IsRecordOfResult(r) /\ r.success THEN @
                  ELSE Append(@, [case |-> l.i, retry_count |-> 0]),
              !.i = @ + 1]

\* the retry loop without the `if retry_count < max_retries` test
RetryAlways(l, j) == TRUE

\* `if retry_count < max_retries`, for the j-th entry of failed_cases
RetryAllowed(l, j) == l.failed_cases[j].retry_count < l.max_retries

\* RetryStep that overwrites the failed record of the case with the retry's
RetryStepInPlace(l, r) ==
    LET old == {k \in 1..Len(l.results) :
                   IsRecordOfResult(r) /\ l.results[k].use_case_name = r.use_case_name}
    IN [l EXCEPT !.results = IF old = {} THEN @
                             ELSE [@ EXCEPT ![CHOOSE k \in old : TRUE] = r],
                 !.j = @ + 1]

\* the retry loop's handling of what the retry gave: a record is appended to
\* results, an exception is printed and dropped
RetryStep(l, r) ==
    [l EXCEPT !.results = IF IsRecordOfResult(r) THEN Append(@, r) ELSE @,
              !.j = @ + 1]

\* `if retry_failed and failed_cases`
EntersRetryLoop(l) == l.retry_failed /\ l.failed_cases # <<>>

\* where control is after a step of the first loop / of the retry loop
PcAfterFirst(l) ==
    IF l.i <= Len(l.test_cases) THEN "rfb_first"
    ELSE IF EntersRetryLoop(l) THEN "rfb_retry" ELSE "rfb_summary"

PcAfterRetry(l) ==
    IF l.j <= Len(l.failed_cases) THEN "rfb_retry" ELSE "rfb_summary"

\* the call: results = [], failed_cases = []
RfbCall ==
    /\ pc = "idle"
    /\ \E fw \in Frameworks, tcs \in TestCaseLists, rf \in BOOLEAN,
          mr \in 0..MaxRetries :
          /\ rfb' = [framework_name |-> fw, test_cases |-> tcs,
                     retry_failed |-> rf, max_retries |-> mr,
                     results |-> <<>>, failed_cases |-> <<>>, i |-> 1, j |-> 1]
          /\ pc' = PcAfterFirst(rfb')
    /\ history' = <<>>
    /\ UNCHANGED <<libVars, costVars, wall, perf, suite, clock, captured, after, calls,
                   enable_performance_monitoring, orchVars, mon, threads, est,
                   scope, last, agg>>

\* one iteration of `for i, test_case in enumerate(test_cases, 1)`
RfbFirst ==
    /\ pc = "rfb_first"
    /\ \E o \in BenchOutcomes, dur \in Durations :
          LET r == Attempt(rfb, rfb.i, o, dur) IN
          /\ rfb' = FirstPassStep(rfb, r)
          /\ history' = Append(history, [case |-> rfb.i, retry |-> FALSE,
                                         ran |-> TaskRan(o), result |-> r])
    /\ pc' = PcAfterFirst(rfb')
    /\ UNCHANGED <<libVars, costVars, wall, perf, suite, clock, captured, after, calls,
                   enable_performance_monitoring, orchVars, mon, threads, est,
                   scope, last, agg>>

\* one iteration of `for test_case, retry_count in failed_cases`
RfbRetry ==
    /\ pc = "rfb_retry"
    /\ IF RetryAllowed(rfb, rfb.j)
       THEN \E o \in BenchOutcomes, dur \in Durations :
               LET case == rfb.failed_cases[rfb.j].case
                   r == Attempt(rfb, case, o, dur) IN
               /\ rfb' = RetryStep(rfb, r)
               /\ history' = Append(history, [case |-> case, retry |-> TRUE,
                                              ran |-> TaskRan(o), result |-> r])
       ELSE /\ rfb' = [rfb EXCEPT !.j = @ + 1]
            /\ UNCHANGED history
    /\ pc' = PcAfterRetry(rfb')
    /\ UNCHANGED <<libVars, costVars, wall, perf, suite, clock, captured, after, calls,
                   enable_performance_monitoring, orchVars, mon, threads, est,
                   scope, last, agg>>

\* self.framework_summaries[framework_name] = self._calculate_framework_summary(...)
RfbSummary ==
    /\ pc = "rfb_summary"
    /\ framework_summaries' =
           Merge(framework_summaries,
                 [k \in {rfb.framework_name} |->
                     calculate_framework_summary(rfb.framework_name, rfb.results)])
    /\ pc' = "rfb_return"
    /\ UNCHANGED <<libVars, costVars, wall, perf, suite, clock, captured, after, calls,
                   enable_performance_monitoring, evaluation_results, mon,
                   threads, est, rfb, scope, last, history, agg>>

\* return results
RfbReturn ==
    /\ pc = "rfb_return"
    /\ pc' = "done"
    /\ UNCHANGED <<libVars, costVars, wall, perf, suite, clock, captured, after, calls,
                   enable_performance_monitoring, orchVars, mon, threads, est,
                   rfb, scope, last, history, agg>>

\* ------------------------------- BaseEvaluator.calculate_aggregate_metrics
\* _calculate_average_quality_scores
calculate_average_quality_scores(results) ==
    [metric \in AllMetrics(results) |-> Average(Scores(results, metric))]

calculate_aggregate_metrics(results) ==
    IF results = <<>> THEN EmptyMap
    ELSE LET successful_results == SuccessfulResults(results) IN
         IF successful_results = <<>>
         THEN [success_rate |-> Zero, total_use_cases |-> Len(results)]
         ELSE [success_rate |-> Quot(Len(successful_results), Len(results)),
               total_use_cases |-> Len(results),
               average_execution_time |->
                   Quot(SeqSum(Column(successful_results, "execution_time")),
                        Len(successful_results)),
               average_memory_usage |->
                   Quot(SeqSum(Column(successful_results, "memory_usage")),
                        Len(successful_results)),
               average_cpu_usage |->
                   Quot(SeqSum(Column(successful_results, "cpu_usage")),
                        Len(successful_results)),
               total_api_costs |->
                   SeqSum([i \in 1..Len(successful_results) |->
                              MapSum(successful_results[i].api_costs)]),
               average_quality_scores |->
                   calculate_average_quality_scores(successful_results)]

\* ------------------------------------ FrameworkEvaluator.compare_frameworks
\* _compare_metrics, _generate_rankings, _generate_comparison_summary: return {}
compare_metrics(framework_results) == EmptyMap
generate_rankings(summaries) == EmptyMap
generate_comparison_summary(comparison) == EmptyMap

compare_frameworks(framework_results) ==
    LET frameworks == [f \in DOMAIN framework_results |->
                          calculate_framework_summary(f, framework_results[f])]
        rankings == generate_rankings(frameworks)
    IN [frameworks |-> frameworks,
        metrics_comparison |-> compare_metrics(framework_results),
        rankings |-> rankings,
        summary |-> generate_comparison_summary(
                        [frameworks |-> frameworks, rankings |-> rankings])]

\* the result records the aggregation functions are applied to
AggRecords ==
    {[framework_name |-> "fw1", use_case_name |-> "task", execution_time |-> t,
      memory_usage |-> t + 1, cpu_usage |-> 2 * t,
      api_costs |-> IF t = 1 THEN EmptyMap ELSE [k \in {"openai"} |-> 2],
      quality_metrics |-> q, raw_output |-> None, success |-> ok,
      error_message |-> None] :
        t \in {1, 2}, ok \in BOOLEAN,
        q \in {EmptyMap, [k \in {"accuracy"} |-> 1],
               [k \in {"accuracy", "bleu"} |-> IF k = "bleu" THEN 1 ELSE 3]}}

AggLists == UNION {[1..n -> AggRecords] : n \in 0..MaxResults}

\* the result lists of the second framework given to compare_frameworks
OtherLists ==
    {<<>>} \cup {<<r>> : r \in {x \in AggRecords :
                                   x.execution_time = 2 /\ x.quality_metrics = EmptyMap}}

\* _calculate_framework_summary applied to the list
AggSummary ==
    /\ agg.op = "input"
    /\ agg' = [agg EXCEPT !.op = "framework_summary",
                          !.out = calculate_framework_summary("fw1", agg.results)]
    /\ UNCHANGED <<libVars, costVars, wall, perf, suite, clock, captured, pc, after, calls,
                   enable_performance_monitoring, orchVars, mon, threads, est,
                   rfb, scope, last, history>>

\* calculate_aggregate_metrics applied to the list
AggAggregate ==
    /\ agg.op = "input"
    /\ agg' = [agg EXCEPT !.op = "aggregate_metrics",
                          !.out = calculate_aggregate_metrics(agg.results)]
    /\ UNCHANGED <<libVars, costVars, wall, perf, suite, clock, captured, pc, after, calls,
                   enable_performance_monitoring, orchVars, mon, threads, est,
                   rfb, scope, last, history>>

\* compare_frameworks applied to the lists of some of the frameworks
AggCompare ==
    /\ agg.op = "input"
    /\ \E fws \in SUBSET Frameworks :
          agg' = [agg EXCEPT !.op = "compare_frameworks",
                      !.given = fws,
                      !.out = compare_frameworks(
                                 [f \in fws |-> IF f = "fw1" THEN agg.results
                                                ELSE agg.other])]
    /\ UNCHANGED <<libVars, costVars, wall, perf, suite, clock, captured, pc, after, calls,
                   enable_performance_monitoring, orchVars, mon, threads, est,
                   rfb, scope, last, history>>

\* ----------------------------------- the monitor used directly by a client
\* The client's last call of start_monitoring or stop_monitoring, and whether
\* the monitor was monitoring when the call was made.
ManualCall(op, m) == [op |-> op, monitoring |-> m.monitoring]

\* start_monitoring() called by the client
ManualStart ==
    /\ pc = "idle"
    /\ calls < MaxMonitorCalls
    /\ calls' = calls + 1
    /\ \E t \in FreeThreads(threads) :
          /\ mon' = start_monitoring(mon, t)
          /\ threads' = spawn(mon, threads, t)
    /\ clock' = start_clock(mon, clock)
    /\ last' = ManualCall("start_monitoring", mon)
    /\ UNCHANGED <<libVars, costVars, wall, perf, suite, captured, pc, after,
                   enable_performance_monitoring, orchVars, est, rfb, scope,
                   history, agg>>

\* stop_monitoring() called by the client
ManualStop ==
    /\ pc = "idle"
    /\ calls < MaxMonitorCalls
    /\ calls' = calls + 1
    /\ mon' = stop_monitoring(mon)
    /\ IF MustJoin(mon)
       THEN pc' = "join" /\ after' = "idle"
       ELSE UNCHANGED <<pc, after>>
    /\ last' = ManualCall("stop_monitoring", mon)
    /\ UNCHANGED <<libVars, costVars, wall, perf, suite, clock, captured, enable_performance_monitoring,
                   orchVars, threads, est, rfb, scope, history, agg>>

\* get_metrics() called by the client; held is the snapshot list at the call
GetMetrics ==
    /\ pc = "idle"
    /\ calls < MaxMonitorCalls
    /\ calls' = calls + 1
    /\ \E elapsed \in Durations :
          perf' = [op |-> "get_metrics", held |-> mon.snapshots,
                   out |-> get_metrics(mon, elapsed)]
    /\ UNCHANGED <<libVars, costVars, wall, suite, clock, captured, pc, after,
                   enable_performance_monitoring, orchVars, mon, threads, est,
                   rfb, scope, last, history, agg>>

\* ------------------------------------------------ a client of the tracker
\* what a caller of record_usage gives: provider (a member of APIProvider or a
\* string), model name, input and output token counts
UsageArgs ==
    {<<"OPENROUTER", "anthropic/claude-3.5-sonnet", 2000, 1000>>,
     <<"OpenRouter", "my-model", 2000, 1000>>,
     <<"openai", "my-model", 2000, 1000>>,
     <<"openai", " ", 2000, 1000>>,
     <<"OPENROUTER", "my-model", -1, 0>>}
\* the rates a caller of update_pricing gives, and for which models
RateArgs == {<<3000, 15000>>, <<-1000, 2000>>}
UpdatedModels == {"my-model"}
\* the filters a caller of get_total_cost and get_usage_summary gives
NoFilter == [provider |-> None, model |-> None, start_time |-> NoTime,
             end_time |-> NoTime]
FilterArgs ==
    {NoFilter, [NoFilter EXCEPT !.provider = "CUSTOM"],
     [NoFilter EXCEPT !.model = "my-model"], [NoFilter EXCEPT !.model = ""],
     [NoFilter EXCEPT !.start_time = 2, !.end_time = 2]}
FormatArgs == {"JSON", "csv", "xml"}

NoCost == [op |-> None]

\* record_usage(...), called by whichever thread has made an API request: the
\* clock is read for the timestamp, which takes a microsecond at least
RecordUsage ==
    /\ Len(tracker.usage_records) < MaxRecords
    /\ wall + 2 <= MaxWall
    /\ wall' = wall + 2
    /\ \E a \in UsageArgs :
          LET r == record_usage(tracker, a[1], a[2], a[3], a[4], wall') IN
          /\ tracker' = r.tracker
          /\ cost' = [op |-> "record_usage", out |-> r.out]
    /\ UNCHANGED <<libVars, perf, suite, clock, captured, pc, after, calls,
                   enable_performance_monitoring, orchVars, mon, threads, est,
                   rfb, scope, last, history, agg>>

\* a call of the client that reads the tracker, or changes its pricing
TrackerCall(c, tr) ==
    /\ pc = "idle"
    /\ calls < MaxTrackerCalls
    /\ calls' = calls + 1
    /\ cost' = c
    /\ tracker' = tr
    /\ UNCHANGED <<libVars, wall, perf, suite, clock, captured, pc, after,
                   enable_performance_monitoring, orchVars, mon, threads, est,
                   rfb, scope, last, history, agg>>

\* calculate_cost(usage) for a usage record of the tracker
CalculateCost ==
    \E i \in 1..Len(tracker.usage_records) :
        TrackerCall([op |-> "calculate_cost", usage |-> tracker.usage_records[i],
                     out |-> calculate_cost(tracker.pricing_data,
                                            tracker.usage_records[i])],
                    tracker)

GetTotalCost ==
    \E f \in FilterArgs :
        TrackerCall([op |-> "get_total_cost", filter |-> f,
                     out |-> get_total_cost(tracker, f.provider, f.model,
                                            f.start_time, f.end_time)],
                    tracker)

GetUsageSummary ==
    \E f \in FilterArgs :
        TrackerCall([op |-> "get_usage_summary", filter |-> f,
                     out |-> get_usage_summary(tracker, f.provider, f.model,
                                               f.start_time, f.end_time)],
                    tracker)

CompareProviders ==
    \E tokens \in {<<2000, 1000>>}, models \in {{}, {"my-model"}} :
        TrackerCall([op |-> "compare_providers",
                     out |-> Returned(compare_providers(tracker.pricing_data,
                                          tokens[1], tokens[2], models))],
                    tracker)

ExportUsageData ==
    \E format_type \in FormatArgs :
        TrackerCall([op |-> "export_usage_data", format_type |-> format_type,
                     out |-> export_usage_data(tracker, format_type)],
                    tracker)

UpdatePricing ==
    \E provider \in APIProvider, model \in UpdatedModels, rates \in RateArgs :
        TrackerCall([op |-> "update_pricing", out |-> Returned(None)],
                    [tracker EXCEPT !.pricing_data =
                        update_pricing(@, provider, model, rates[1], rates[2])])

\* __enter__: start_monitoring
monitor_enter(m, t) == start_monitoring(m, t)

\* `with monitor:` on the client's monitor ("direct"), or
\* `with monitor_performance(...)`, which makes a new monitor and enters it
WithEnter ==
    /\ pc = "idle"
    /\ calls < MaxMonitorCalls
    /\ calls' = calls + 1
    /\ \E via \in {"direct", "monitor_performance"} :
          LET m == IF via = "direct" THEN mon ELSE NewMonitor
              th == IF via = "direct" THEN threads ELSE NoThreads IN
          \E t \in FreeThreads(th) :
             /\ mon' = monitor_enter(m, t)
             /\ threads' = spawn(m, th, t)
             /\ clock' = start_clock(m, clock)
             /\ captured' = IF via = "direct" THEN captured ELSE NoneCaptured
             /\ scope' = [via |-> via, body |-> "running"]
    /\ pc' = "with_body"
    /\ UNCHANGED <<libVars, costVars, wall, perf, suite, after, enable_performance_monitoring, orchVars,
                   est, rfb, last, history, agg>>

\* the body of the with-block completes or raises
WithBody ==
    /\ pc = "with_body"
    /\ \E b \in {"completed", "raised"} : scope' = [scope EXCEPT !.body = b]
    /\ pc' = "with_exit"
    /\ UNCHANGED <<libVars, costVars, wall, perf, suite, clock, captured, after, calls,
                   enable_performance_monitoring, orchVars, mon, threads, est,
                   rfb, last, history, agg>>

\* __exit__ that stops the monitor only when the body raised nothing
monitor_exit_unless_raised(m, body) == IF body = "raised" THEN m ELSE stop_monitoring(m)

\* __exit__(exc_type, exc_val, exc_tb): stop_monitoring, whatever the body did
monitor_exit(m, body) == stop_monitoring(m)

WithExit ==
    /\ pc = "with_exit"
    /\ mon' = monitor_exit(mon, scope.body)
    /\ IF MustJoin(mon) /\ ~mon'.monitoring
       THEN pc' = "join" /\ after' = "with_left"
       ELSE pc' = "with_left" /\ after' = after
    /\ UNCHANGED <<libVars, costVars, wall, perf, suite, clock, captured, calls,
                   enable_performance_monitoring, orchVars, threads, est, rfb,
                   scope, last, history, agg>>

\* control is past the with-block (an exception of the body propagates)
WithLeave ==
    /\ pc = "with_left"
    /\ pc' = "idle"
    /\ scope' = NoScope
    /\ UNCHANGED <<libVars, costVars, wall, perf, suite, clock, captured, after, calls,
                   enable_performance_monitoring, orchVars, mon, threads, est,
                   rfb, last, history, agg>>

\* ----------------------------------------------------------- ConfigManager
\* The settings of EvaluationConfig that carry a validator or a range.
ConfigFields == {"default_timeout_seconds", "max_timeout_seconds", "default_export_format", "rouge_types"}

DefaultConfig == [default_timeout_seconds |-> 300, max_timeout_seconds |-> 1800, default_export_format |-> "json", rouge_types |-> <<"rouge1", "rouge2", "rougeL">>]

valid_formats == {"json", "csv", "html"}

valid_types == {"rouge1", "rouge2", "rougeL", "rougeLsum"}

\* Field(ge=1, le=3600) of default_timeout_seconds
DefaultTimeoutInRange(v) == 1 <= v /\ v <= 3600

\* Field(ge=60, le=7200) of max_timeout_seconds
MaxTimeoutInRange(v) == 60 <= v /\ v <= 7200

validate_export_format(v) == IF Lower(v) \notin valid_formats THEN Raised("ValueError") ELSE Returned(Lower(v))

validate_rouge_types(v) == IF \E i \in 1..Len(v) : v[i] \notin valid_types THEN Raised("ValueError") ELSE Returned(v)

\* `values` holds default_timeout_seconds only when that field was valid
validate_max_timeout(v, values) == IF "default_timeout_seconds" \in DOMAIN values /\ v < values.default_timeout_seconds THEN Raised("ValueError") ELSE Returned(v)

\* EvaluationConfig(**d): extra fields are forbidden, every field is validated,
\* and one failure makes the constructor raise.
EvaluationConfig(d) ==
    LET values == IF DefaultTimeoutInRange(d.default_timeout_seconds) THEN [default_timeout_seconds |-> d.default_timeout_seconds] ELSE <<>>
        format == validate_export_format(d.default_export_format)
    IN  IF \/ DOMAIN d # ConfigFields
           \/ ~DefaultTimeoutInRange(d.default_timeout_seconds)
           \/ ~MaxTimeoutInRange(d.max_timeout_seconds)
           \/ validate_max_timeout(d.max_timeout_seconds, values).kind = "raise"
           \/ format.kind = "raise"
           \/ validate_rouge_types(d.rouge_types).kind = "raise"
        THEN Raised("ValidationError")
        ELSE Returned([d EXCEPT !.default_export_format = format.value])

\* dict.update
DictUpdate(current_dict, config_data) == [k \in DOMAIN current_dict \cup DOMAIN config_data |-> IF k \in DOMAIN config_data THEN config_data[k] ELSE current_dict[k]]

NoPath == [path |-> None]

NewConfigManager == [config_path |-> NoPath, config |-> DefaultConfig]

\* _update_config_from_dict: the new configuration, or the exception raised
update_config_from_dict(cm, config_data) ==
    LET built == EvaluationConfig(DictUpdate(cm.config, config_data))
    IN  IF built.kind = "raise" THEN [out |-> built, cm |-> cm] ELSE [out |-> Returned(None), cm |-> [cm EXCEPT !.config = built.value]]

\* ConfigManager.load_config(config_path): a missing file returns at once;
\* whatever the try block raises is printed as a warning and dropped.
load_config(cm, file) ==
    LET with_path == [cm EXCEPT !.config_path = [path |-> file.path]]
        updated == update_config_from_dict(with_path, file.config_data)
    IN  IF ~file.exists THEN [out |-> Returned(None), cm |-> with_path]
        ELSE IF file.suffix \notin {".yaml", ".yml", ".json"} THEN [out |-> Returned(None), cm |-> with_path]
        ELSE [out |-> Returned(None), cm |-> updated.cm]

\* ConfigManager.update_config(**kwargs): prints and re-raises
update_config(cm, kwargs) == update_config_from_dict(cm, kwargs)

\* The contents of the configuration files a caller points load_config at.
ConfigData ==
    { [default_timeout_seconds |-> 600],
      [default_timeout_seconds |-> 2000],
      [max_timeout_seconds |-> 3600],
      [max_timeout_seconds |-> 100],
      [default_export_format |-> "JSON"],
      [default_export_format |-> "xml"],
      [rouge_types |-> <<"rouge1", "rougeLsum">>],
      [rouge_types |-> <<"rouge1", "rouge3">>],
      [timeout |-> 600] }

ConfigFiles ==
    {[path |-> "config", exists |-> TRUE, suffix |-> ".yaml", config_data |-> d] : d \in ConfigData}
        \cup {[path |-> "missing", exists |-> FALSE, suffix |-> ".yaml", config_data |-> [default_timeout_seconds |-> 600]],
              [path |-> "other", exists |-> TRUE, suffix |-> ".txt", config_data |-> [default_timeout_seconds |-> 600]]}

LibFrame == UNCHANGED <<costVars, wall, perf, suite, clock, captured, pc, after, calls, enable_performance_monitoring, evaluation_results, framework_summaries, mon, threads, est, rfb, scope, last, history, agg>>

LoadConfig ==
    /\ \E file \in ConfigFiles :
       \E r \in {load_config(config_manager, file)} :
          /\ config_manager' = r.cm
          /\ call' = [op |-> "load_config", before |-> config_manager.config, file |-> file, out |-> r.out]
    /\ LibFrame

UpdateConfig ==
    /\ \E kwargs \in ConfigData :
       \E r \in {update_config(config_manager, kwargs)} :
          /\ config_manager' = r.cm
          /\ call' = [op |-> "update_config", before |-> config_manager.config, kwargs |-> kwargs, out |-> r.out]
    /\ LibFrame

\* --------------------------------------------------------------- BLEUMetric
\* A text is given as the words str.split() finds in it, so " ".join(text.split())
\* followed by split() gives the same words back.
Words == {"the", "The", "cat"}

Texts == UNION {[1..n -> Words] : n \in 0..MaxTokens}

\* TextSimilarityMetric.preprocess_text followed by split()
preprocess_text(case_sensitive, text) == IF case_sensitive THEN text ELSE [i \in DOMAIN text |-> Lower(text[i])]

\* _get_ngrams: the list of n-grams the Counter is built from
get_ngrams(tokens, n) == [i \in 1..(Len(tokens) - n + 1) |-> SubSeq(tokens, i, i + n - 1)]

\* Counter(ngrams)[ngram]
Count(ngrams, ngram) == Cardinality({i \in DOMAIN ngrams : ngrams[i] = ngram})

RECURSIVE Matches(_, _, _)
Matches(keys, actual_ngrams, expected_ngrams) ==
    IF keys = {} THEN 0
    ELSE LET ngram == CHOOSE k \in keys : TRUE
             here == IF Count(expected_ngrams, ngram) > 0 THEN Min(Count(actual_ngrams, ngram), Count(expected_ngrams, ngram)) ELSE 0
         IN  here + Matches(keys \ {ngram}, actual_ngrams, expected_ngrams)

\* A precision is the exact quotient <<matches, total>>; 0.0 is <<0, 1>>.
Precision(expected_tokens, actual_tokens, n) ==
    LET expected_ngrams == get_ngrams(expected_tokens, n)
        actual_ngrams == get_ngrams(actual_tokens, n)
    IN  IF actual_ngrams = <<>> THEN <<0, 1>>
        ELSE <<Matches(Seq2Set(actual_ngrams), actual_ngrams, expected_ngrams), Len(actual_ngrams)>>

RECURSIVE Product(_, _)
Product(ps, k) == IF ps = <<>> THEN 1 ELSE Head(ps)[k] * Product(Tail(ps), k)

\* A float is kept exactly as exp(-drop[1]/drop[2]) * (num/den)^(1/root).
FloatOne == [num |-> 1, den |-> 1, root |-> 1, drop |-> <<0, 1>>]

FloatZero == [num |-> 0, den |-> 1, root |-> 1, drop |-> <<0, 1>>]

NaN == [num |-> 0, den |-> 0, root |-> 1, drop |-> <<0, 1>>]

\* np.exp(np.mean(np.log(precisions))) when every precision is positive,
\* else 0.0; the mean of no precision at all is nan.
geometric_mean(precisions) ==
    IF precisions = <<>> THEN NaN
    ELSE IF \E i \in DOMAIN precisions : precisions[i][1] = 0 THEN FloatZero
    ELSE IF Product(precisions, 1) = Product(precisions, 2) THEN FloatOne
    ELSE [num |-> Product(precisions, 1), den |-> Product(precisions, 2), root |-> Len(precisions), drop |-> <<0, 1>>]

\* _calculate_brevity_penalty: 1.0, or exp(1 - ref_length / cand_length)
calculate_brevity_penalty(ref_length, cand_length) ==
    IF cand_length >= ref_length THEN FloatOne
    ELSE [FloatOne EXCEPT !.drop = <<ref_length - cand_length, cand_length>>]

\* brevity_penalty * geometric_mean
FloatTimes(brevity_penalty, gm) ==
    IF gm = NaN THEN NaN
    ELSE IF gm = FloatZero THEN FloatZero
    ELSE [gm EXCEPT !.drop = brevity_penalty.drop]

\* MetricResult(...): score must satisfy ge=0.0 and le=1.0, which nan does not
ValidatedResult(name, score, metadata) ==
    IF score = NaN THEN Raised("ValidationError")
    ELSE Returned([name |-> name, score |-> score, metadata |-> metadata])

bleu_precisions(expected_tokens, actual_tokens, max_n) == [n \in 1..max_n |-> Precision(expected_tokens, actual_tokens, n)]

\* BLEUMetric.calculate
bleu_calculate(max_n, case_sensitive, expected, actual) ==
    LET expected_tokens == preprocess_text(case_sensitive, expected)
        actual_tokens == preprocess_text(case_sensitive, actual)
        precisions == bleu_precisions(expected_tokens, actual_tokens, max_n)
        brevity_penalty == calculate_brevity_penalty(Len(expected_tokens), Len(actual_tokens))
    IN  IF actual_tokens = <<>>
        THEN ValidatedResult("BLEU", FloatZero, [reason |-> "Empty actual text"])
        ELSE ValidatedResult("BLEU", FloatTimes(brevity_penalty, geometric_mean(precisions)),
                          [precisions |-> precisions, brevity_penalty |-> brevity_penalty, expected_length |-> Len(expected_tokens), actual_length |-> Len(actual_tokens)])

Pending == [kind |-> "pending"]

BleuInputs == {[op |-> "bleu", max_n |-> max_n, case_sensitive |-> case_sensitive, expected |-> expected, actual |-> actual, out |-> Pending] : max_n \in 0..MaxN, case_sensitive \in BOOLEAN, expected \in Texts, actual \in Texts}

BleuCalculate ==
    /\ call.op = "bleu"
    /\ call.out = Pending
    /\ call' = [call EXCEPT !.out = bleu_calculate(call.max_n, call.case_sensitive, call.expected, call.actual)]
    /\ UNCHANGED config_manager
    /\ LibFrame

\* ------------------------------------------------ InformationFreshnessMetric
\* A regex group: digits (num) or a word (text).
Digits(n) == [text |-> "", num |-> n]

Word(w) == [text |-> w, num |-> -1]

\* int(group): the number, or ValueError for a word
ToInt(g) == IF g.text = "" THEN Returned(g.num) ELSE Raised("ValueError")

\* The phrases a content is made of, separated by "; ".  form is the
\* notation the phrase is written in and groups what its regex captures.
Phrase(form, a, b, c) == [form |-> form, groups |-> <<a, b, c>>]

Phrases ==
    { Phrase("iso", Digits(2024), Digits(1), Digits(15)),
      Phrase("iso", Digits(5), Digits(3), Digits(12)),
      Phrase("iso", Digits(2024), Digits(2), Digits(30)),
      Phrase("us_slash", Digits(1), Digits(15), Digits(2024)),
      Phrase("us_dash", Digits(3), Digits(12), Digits(15)),
      Phrase("written", Word("January"), Digits(15), Digits(2024)),
      Phrase("written", Word("Sept"), Digits(15), Digits(2024)),
      Phrase("none", Word("report"), Word("of"), Word("results")) }

Contents == UNION {[1..n -> Phrases] : n \in 0..MaxDates}

\* date_patterns, in the order of the list
date_patterns == <<"iso", "us_slash", "us_dash", "written">>

\* pattern.endswith(r'(\d{4})\b'): true of the three patterns whose last
\* group is the year
EndsWithYear(pattern) == pattern \in {"us_slash", "us_dash", "written"}

\* 'w+' in pattern
HasWord(pattern) == pattern = "written"

\* re.findall(pattern, content_str)
FindAll(pattern, content) == SelectSeq(content, LAMBDA ph : ph.form = pattern)

\* _month_name_to_number, on the lowercased name
month_name_to_number(month_name) ==
    CASE month_name \in {"January", "Jan"} -> 1
      [] month_name \in {"September", "Sep"} -> 9
      [] OTHER -> 0

IsLeap(year) == year % 4 = 0 /\ (year % 100 # 0 \/ year % 400 = 0)

DaysInMonth(year, month) ==
    CASE month \in {4, 6, 9, 11} -> 30
      [] month = 2 -> IF IsLeap(year) THEN 29 ELSE 28
      [] OTHER -> 31

\* datetime(year, month, day)
Datetime(year, month, day) ==
    IF year \in 1..9999 /\ month \in 1..12 /\ day \in 1..DaysInMonth(year, month)
    THEN Returned([year |-> year, month |-> month, day |-> day, hour |-> 0])
    ELSE Raised("ValueError")

RECURSIVE DaysBeforeMonth(_, _)
DaysBeforeMonth(year, month) == IF month = 1 THEN 0 ELSE DaysBeforeMonth(year, month - 1) + DaysInMonth(year, month - 1)

\* datetime.toordinal()
Ordinal(d) == LET y == d.year - 1 IN y * 365 + y \div 4 - y \div 100 + y \div 400 + DaysBeforeMonth(d.year, d.month) + d.day

\* (query_date - date).days
AgeDays(query_date, date) == ((Ordinal(query_date) * 24 + query_date.hour) - (Ordinal(date) * 24 + date.hour)) \div 24

\* The body of the try block for one match: the date, "skip" for `continue`
\* on an unknown month name, or the exception raised.
DateOfMatch(pattern, match) ==
    IF EndsWithYear(pattern)
    THEN IF \E i \in 1..3 : ToInt(match[i]).kind = "raise" THEN Raised("ValueError")
         ELSE Datetime(match[1].num, match[2].num, match[3].num)
    ELSE IF HasWord(pattern)
    THEN IF ToInt(match[2]).kind = "raise" \/ ToInt(match[3]).kind = "raise" THEN Raised("ValueError")
         ELSE IF month_name_to_number(match[1].text) = 0 THEN [kind |-> "skip"]
         ELSE Datetime(match[3].num, month_name_to_number(match[1].text), match[2].num)
    ELSE IF \E i \in 1..3 : ToInt(match[i]).kind = "raise" THEN Raised("ValueError")
         ELSE Datetime(match[3].num, match[1].num, match[2].num)

RECURSIVE DatesOfMatches(_, _)
DatesOfMatches(pattern, matches) ==
    IF matches = <<>> THEN <<>>
    ELSE LET date == DateOfMatch(pattern, Head(matches).groups)
         IN  (IF date.kind = "return" THEN <<date.value>> ELSE <<>>) \o DatesOfMatches(pattern, Tail(matches))

RECURSIVE ExtractFrom(_, _)
ExtractFrom(patterns, content) ==
    IF patterns = <<>> THEN <<>>
    ELSE DatesOfMatches(Head(patterns), FindAll(Head(patterns), content)) \o ExtractFrom(Tail(patterns), content)

\* _extract_dates
extract_dates(content) == ExtractFrom(date_patterns, content)

\* A score is the exact quotient <<numerator, denominator>>.
ScoreOne == <<1, 1>>

ScoreZero == <<0, 1>>

\* _calculate_date_freshness: the score
calculate_date_freshness(max_age_days, date, query_date) ==
    LET age_days == AgeDays(query_date, date)
    IN  IF age_days < 0 THEN ScoreOne
        ELSE IF age_days <= max_age_days THEN <<max_age_days - age_days, max_age_days>>
        ELSE ScoreZero

ScoreLeq(a, b) == a[1] * b[2] <= b[1] * a[2]

\* max(freshness_scores): the first of the largest scores
RECURSIVE MaxScore(_)
MaxScore(scores) ==
    IF Len(scores) = 1 THEN scores[1]
    ELSE LET rest == MaxScore(Tail(scores)) IN IF ScoreLeq(rest, Head(scores)) THEN Head(scores) ELSE rest

\* InformationFreshnessMetric.calculate
freshness_calculate(max_age_days, content, query_date) ==
    LET dates == extract_dates(content)
        freshness_scores == [i \in DOMAIN dates |-> calculate_date_freshness(max_age_days, dates[i], query_date)]
    IN  IF dates = <<>>
        THEN Returned([name |-> "InformationFreshness", score |-> ScoreZero, reason |-> "No dates found in content", dates |-> dates, individual_scores |-> <<>>])
        ELSE Returned([name |-> "InformationFreshness", score |-> MaxScore(freshness_scores), reason |-> "", dates |-> dates, individual_scores |-> freshness_scores])

QueryDates == {[year |-> 2024, month |-> 2, day |-> 1, hour |-> h] : h \in {0, 12}} \cup {[year |-> 2023, month |-> 6, day |-> 1, hour |-> 12]}

MaxAges == {10, 365}

FreshnessInputs == {[op |-> "freshness", max_age_days |-> max_age_days, content |-> content, query_date |-> query_date, out |-> Pending] : max_age_days \in MaxAges, content \in Contents, query_date \in QueryDates}

FreshnessCalculate ==
    /\ call.op = "freshness"
    /\ call.out = Pending
    /\ call' = [call EXCEPT !.out = freshness_calculate(call.max_age_days, call.content, call.query_date)]
    /\ UNCHANGED config_manager
    /\ LibFrame

\* ------------------------------------------------------- text splitting
\* default max_chunk_size of ContextRelevanceMetric._split_context
ContextChunkSize == 500
\* default max_chunk_size of AnswerGroundednessMetric._split_context
GroundednessChunkSize == 300
\* default max_chunk_size of QueryAnswerRelevanceMetric._split_content
ContentChunkSize == 500

\* A text is the list of the pieces re.split(r'[.!?]+', text) finds in it:
\* `before` whitespace characters, `length` characters that begin and end
\* with a non-blank one, and the `stops` delimiters that end the piece.
Sentence(before, length, stops) == [before |-> before, length |-> length, stops |-> stops]

Sentences ==
    { Sentence(0, 1, 1), Sentence(0, 200, 1), Sentence(1, 200, 2), Sentence(0, 299, 1), Sentence(0, 300, 1),
      Sentence(0, 499, 1), Sentence(0, 500, 1), Sentence(0, 600, 1), Sentence(600, 0, 1) }

Contexts == UNION {[1..n -> Sentences] : n \in 1..MaxSentences}

RECURSIVE TextLen(_)
TextLen(text) == IF text = <<>> THEN 0 ELSE Head(text).before + Head(text).length + Head(text).stops + TextLen(Tail(text))

\* len(current_chunk): every sentence in it is followed by ". "
ChunkLen(current_chunk) == SeqSum(current_chunk) + 2 * Len(current_chunk)

\* current_chunk.strip(): the last blank goes.  A chunk is the lengths of the
\* sentences it holds and its own length.
Stripped(current_chunk) == [sentences |-> current_chunk, length |-> ChunkLen(current_chunk) - 1]

\* [context]: the text itself as the only chunk
Whole(text) == [sentences |-> [i \in DOMAIN text |-> text[i].length], length |-> TextLen(text)]

\* for sentence in sentences: ...; if current_chunk: chunks.append(...)
RECURSIVE SplitSentences(_, _, _, _)
SplitSentences(sentences, max_chunk_size, chunks, current_chunk) ==
    IF sentences = <<>>
    THEN IF current_chunk # <<>> THEN Append(chunks, Stripped(current_chunk)) ELSE chunks
    ELSE LET sentence == Head(sentences).length
         IN  IF sentence = 0 THEN SplitSentences(Tail(sentences), max_chunk_size, chunks, current_chunk)
             ELSE IF ChunkLen(current_chunk) + sentence <= max_chunk_size
             THEN SplitSentences(Tail(sentences), max_chunk_size, chunks, Append(current_chunk, sentence))
             ELSE SplitSentences(Tail(sentences), max_chunk_size, IF current_chunk # <<>> THEN Append(chunks, Stripped(current_chunk)) ELSE chunks, <<sentence>>)

\* ContextRelevanceMetric._split_context and AnswerGroundednessMetric._split_context
split_context(context, max_chunk_size) ==
    IF TextLen(context) <= max_chunk_size THEN <<Whole(context)>>
    ELSE LET chunks == SplitSentences(context, max_chunk_size, <<>>, <<>>)
         IN  IF chunks # <<>> THEN chunks ELSE <<Whole(context)>>

\* The paragraphs content.split('\n\n') finds.
ParagraphSentences == {Sentence(0, 200, 1), Sentence(0, 500, 1), Sentence(600, 0, 1)}

Paragraphs == UNION {[1..n -> ParagraphSentences] : n \in 1..MaxParagraphs}

ContentsOfParagraphs == UNION {[1..n -> Paragraphs] : n \in 1..MaxParagraphs}

\* len(content): the paragraphs and the "\n\n" between them
RECURSIVE ContentLen(_)
ContentLen(paragraphs) == IF paragraphs = <<>> THEN 0 ELSE TextLen(Head(paragraphs)) + (IF Len(paragraphs) > 1 THEN 2 ELSE 0) + ContentLen(Tail(paragraphs))

RECURSIVE SplitParagraphs(_, _)
SplitParagraphs(paragraphs, max_chunk_size) ==
    IF paragraphs = <<>> THEN <<>>
    ELSE (IF TextLen(Head(paragraphs)) <= max_chunk_size THEN <<Whole(Head(paragraphs))>> ELSE SplitSentences(Head(paragraphs), max_chunk_size, <<>>, <<>>))
            \o SplitParagraphs(Tail(paragraphs), max_chunk_size)

\* [content]
WholeContent(content) == [sentences |-> <<>>, length |-> ContentLen(content)]

\* QueryAnswerRelevanceMetric._split_content
split_content(content, max_chunk_size) ==
    IF ContentLen(content) <= max_chunk_size THEN <<WholeContent(content)>>
    ELSE LET chunks == SplitParagraphs(content, max_chunk_size)
         IN  IF chunks # <<>> THEN chunks ELSE <<WholeContent(content)>>

SplitInputs ==
    {[op |-> "split_context", metric |-> m[1], max_chunk_size |-> m[2], text |-> context, out |-> Pending] : m \in {<<"ContextRelevanceMetric", ContextChunkSize>>, <<"AnswerGroundednessMetric", GroundednessChunkSize>>}, context \in Contexts}
        \cup {[op |-> "split_content", metric |-> "QueryAnswerRelevanceMetric", max_chunk_size |-> ContentChunkSize, text |-> content, out |-> Pending] : content \in ContentsOfParagraphs}

SplitContext ==
    /\ call.op = "split_context"
    /\ call.out = Pending
    /\ call' = [call EXCEPT !.out = Returned(split_context(call.text, call.max_chunk_size))]
    /\ UNCHANGED config_manager
    /\ LibFrame

SplitContent ==
    /\ call.op = "split_content"
    /\ call.out = Pending
    /\ call' = [call EXCEPT !.out = Returned(split_content(call.text, call.max_chunk_size))]
    /\ UNCHANGED config_manager
    /\ LibFrame

\* ------------------------------------------------------- metric suites
\* keys of the primitives of each suite, in the order the suite runs them
QAOrder == <<"bleu", "rouge", "semantic", "factual">>
RetrievalOrder == <<"precision", "recall">>
GenerationOrder == <<"context_relevance", "groundedness">>
SearchOrder == <<"credibility", "freshness", "relevance">>
SuiteKeys(kind) ==
    CASE kind = "qa" -> Seq2Set(QAOrder)
      [] kind = "rag" -> Seq2Set(RetrievalOrder) \cup Seq2Set(GenerationOrder)
      [] kind = "search" -> Seq2Set(SearchOrder)

\* BaseMetric.name of the primitive stored under a key
MetricName(k) ==
    CASE k = "bleu" -> "BLEU"
      [] k = "rouge" -> "ROUGE"
      [] k = "semantic" -> "SemanticSimilarity"
      [] k = "factual" -> "FactualAccuracy"
      [] k = "precision" -> "RetrievalPrecision"
      [] k = "recall" -> "RetrievalRecall"
      [] k = "context_relevance" -> "ContextRelevance"
      [] k = "groundedness" -> "AnswerGroundedness"
      [] k = "credibility" -> "SourceCredibility"
      [] k = "freshness" -> "InformationFreshness"
      [] k = "relevance" -> "QueryAnswerRelevance"

\* what one call of a primitive's calculate may do: return a result with a
\* score (0 or 1 here) or raise
MetricOutcomes ==
    [kind : {"score"}, score : {0, 1}] \cup [kind : {"raise"}, msg : Messages]

MetricResult(name, score, metadata) ==
    [name |-> name, score |-> score, metadata |-> metadata]

\* the MetricResult a primitive returns when its calculate does not raise
Calculated(k, o) == MetricResult(MetricName(k), o.score, EmptyMap)

\* the suite constructors: one primitive per flag that is set
NewSuite(kind, flags) == {k \in SuiteKeys(kind) : flags[k]}

\* the enabled primitives of order called one after the other with no handler:
\* the first that raises ends the call
CallInOrder(order, metrics, o) ==
    LET raising == {i \in DOMAIN order :
                       order[i] \in metrics /\ o[order[i]].kind = "raise"}
        first == CHOOSE i \in raising : \A j \in raising : i <= j
    IN  IF raising = {}
        THEN [kind |-> "return",
              value |-> [k \in Seq2Set(order) \cap metrics |-> Calculated(k, o[k])]]
        ELSE [kind |-> "raise", msg |-> o[order[first]].msg]

qa_evaluate_unguarded(metrics, o) == CallInOrder(QAOrder, metrics, o)

\* QAMetrics.evaluate
qa_evaluate(metrics, o) ==
    [kind |-> "return",
     value |-> [k \in Seq2Set(QAOrder) \cap metrics |->
                  IF o[k].kind = "raise"
                  THEN MetricResult(MetricName(k), 0,
                                    [e \in {"error"} |-> o[k].msg])
                  ELSE Calculated(k, o[k])]]

\* RAGMetrics.evaluate_retrieval and evaluate_generation
evaluate_retrieval(metrics, o) == CallInOrder(RetrievalOrder, metrics, o)
evaluate_generation(metrics, o) == CallInOrder(GenerationOrder, metrics, o)

\* RAGMetrics.evaluate_full_pipeline
evaluate_full_pipeline(metrics, o) ==
    LET retrieval_results == evaluate_retrieval(metrics, o)
        generation_results == evaluate_generation(metrics, o)
    IN  IF retrieval_results.kind = "raise" THEN retrieval_results
        ELSE IF generation_results.kind = "raise" THEN generation_results
        ELSE [kind |-> "return",
              value |-> Merge(retrieval_results.value, generation_results.value)]

\* SearchMetrics.evaluate
search_evaluate(metrics, o) == CallInOrder(SearchOrder, metrics, o)

\* the suites a client may have constructed, with what the primitives will do
Suites(kind) ==
    {[op |-> "new", kind |-> kind, metrics |-> NewSuite(kind, flags),
      outcomes |-> o, out |-> NoTask] :
        flags \in [SuiteKeys(kind) -> BOOLEAN],
        o \in [SuiteKeys(kind) -> MetricOutcomes]}

SuiteCall(kind, op, out) ==
    /\ suite.op = "new"
    /\ suite.kind = kind
    /\ suite' = [suite EXCEPT !.op = op, !.out = out]
    /\ UNCHANGED <<libVars, costVars, wall, perf, clock, captured, pc, after, calls,
                   enable_performance_monitoring, orchVars, mon, threads, est,
                   rfb, scope, last, history, agg>>

QAEvaluate ==
    SuiteCall("qa", "evaluate", qa_evaluate(suite.metrics, suite.outcomes))
RagEvaluateRetrieval ==
    SuiteCall("rag", "evaluate_retrieval",
              evaluate_retrieval(suite.metrics, suite.outcomes))
RagEvaluateGeneration ==
    SuiteCall("rag", "evaluate_generation",
              evaluate_generation(suite.metrics, suite.outcomes))
RagEvaluateFullPipeline ==
    SuiteCall("rag", "evaluate_full_pipeline",
              evaluate_full_pipeline(suite.metrics, suite.outcomes))
SearchEvaluate ==
    SuiteCall("search", "evaluate",
              search_evaluate(suite.metrics, suite.outcomes))

\* ------------------------------------------------------------ specifications
\* the objects outside the orchestrator and its monitor, as constructed
InitLib ==
    /\ cost = NoCost
    /\ wall = 0
    /\ config_manager = NewConfigManager

InitObjects ==
    /\ InitLib
    /\ pc = "idle"
    /\ after = None
    /\ calls = 0
    /\ enable_performance_monitoring \in BOOLEAN
    /\ evaluation_results = <<>>
    /\ framework_summaries = EmptyMap
    /\ mon = NewMonitor
    /\ threads = NoThreads
    /\ est = NoEst
    /\ rfb = NoRfb
    /\ scope = NoScope
    /\ last = NoLast
    /\ history = <<>>
    /\ clock = NewClock
    /\ captured = NoneCaptured

InitState == InitObjects /\ call = NoCall

NoPerf == [op |-> None]

\* The state in which one call of a metric primitive is about to be made.
InitPure == InitObjects /\ enable_performance_monitoring = FALSE /\ agg = NoAgg /\ suite = NoSuite /\ perf = NoPerf /\ tracker = NoTracker

InitNoTracker == InitState /\ agg = NoAgg /\ suite = NoSuite /\ perf = NoPerf

\* an evaluator made with enable_cost_tracking=False
Init == InitNoTracker /\ tracker = NoTracker

\* an evaluator made with enable_cost_tracking=True, or a tracker on its own
InitTracker == InitNoTracker /\ tracker = NewTracker

Sampler == \E t \in 1..MaxThreads :
    \/ SamplerTest(t) \/ SamplerCapture(t) \/ SamplerAppend(t)
    \/ SamplerError(t) \/ SamplerWake(t)

\* Spec: a client of FrameworkEvaluator.evaluate_single_task and of an
\* evaluator's execute_with_monitoring, with the sampler of the task's monitor
Next ==
    \/ EstCall \/ EstTask \/ EstStop \/ EstFinish \/ EstFail
    \/ EstReturn
    \/ EwmCall
    \/ JoinReturns
    \/ Sampler

Spec == Init /\ [][Next]_vars

\* SpecTracker: a client that uses one APIUsageTracker directly
NextTracker ==
    \/ RecordUsage \/ UpdatePricing \/ CalculateCost \/ GetTotalCost
    \/ GetUsageSummary \/ CompareProviders \/ ExportUsageData

SpecTracker == InitTracker /\ [][NextTracker]_vars

NextBleu == BleuCalculate

InitBleu == InitPure /\ call \in BleuInputs

SpecBleu == InitBleu /\ [][NextBleu]_vars

NextFreshness == FreshnessCalculate

InitFreshness == InitPure /\ call \in FreshnessInputs

SpecFreshness == InitFreshness /\ [][NextFreshness]_vars

NextSplit == SplitContext \/ SplitContent

InitSplit == InitPure /\ call \in SplitInputs

SpecSplit == InitSplit /\ [][NextSplit]_vars

NextConfig == LoadConfig \/ UpdateConfig

SpecConfig == InitTracker /\ [][NextConfig]_vars

\* half a microsecond passes
Tick ==
    /\ wall < MaxWall
    /\ wall' = wall + 1
    /\ UNCHANGED <<libVars, costVars, perf, suite, clock, captured, pc, after,
                   calls, enable_performance_monitoring, orchVars, mon, threads,
                   est, rfb, scope, last, history, agg>>

\* SpecCost: a client of evaluate_single_task on an evaluator that tracks costs
\* (and does not monitor performance), and whichever threads record the usage
\* of the API requests they make on the evaluator's tracker
InitCost == InitTracker /\ enable_performance_monitoring = FALSE

NextCost ==
    \/ EstCall \/ EstTask \/ EstStop \/ EstFinish \/ EstResult \/ EstFail
    \/ EstReturn
    \/ RecordUsage \/ UpdatePricing
    \/ Tick

SpecCost == InitCost /\ [][NextCost]_vars

\* SpecMonitor: a client that uses one PerformanceMonitor directly (start, stop,
\* with-blocks) or through monitor_performance, with the monitor's samplers
InitMonitor == Init /\ enable_performance_monitoring = TRUE

NextMonitor ==
    \/ ManualStart \/ ManualStop \/ GetMetrics \/ WithEnter \/ WithBody \/ WithExit \/ WithLeave
    \/ JoinReturns
    \/ Sampler

SpecMonitor == InitMonitor /\ [][NextMonitor]_vars

\* SpecMonitorFair: SpecMonitor with sampler threads that are scheduled: a
\* thread that can take a step of its loop (other than failing) takes one
SamplerRuns(t) ==
    SamplerTest(t) \/ SamplerCapture(t) \/ SamplerAppend(t) \/ SamplerWake(t)

SpecMonitorFair ==
    SpecMonitor /\ \A t \in 1..MaxThreads : WF_vars(SamplerRuns(t))

\* SpecMetrics: get_metrics called on a monitor that was started and stopped
\* (its sampler has exited) and holds some list of snapshots, or on a new one
SampleLists ==
    UNION {[1..n -> SampleReadings] : n \in 0..MaxSamples}

StoppedMonitor(readings) ==
    [monitoring |-> FALSE, monitor_thread |-> 1, start_time |-> "set",
     snapshots |-> [i \in 1..Len(readings) |->
                      [by |-> 1, timestamp |-> i + 1,
                       memory_mb |-> readings[i].memory_mb,
                       cpu_percent |-> readings[i].cpu_percent]]]

InitMetrics ==
    /\ pc = "idle" /\ after = None /\ calls = 0
    /\ enable_performance_monitoring = TRUE
    /\ evaluation_results = <<>> /\ framework_summaries = EmptyMap
    /\ est = NoEst /\ rfb = NoRfb /\ scope = NoScope
    /\ last = NoLast /\ history = <<>>
    /\ agg = NoAgg /\ suite = NoSuite /\ perf = NoPerf
    /\ captured = NoneCaptured
    /\ InitLib
    /\ call = NoCall
    /\ tracker = NoTracker
    /\ \E readings \in SampleLists :
          \/ /\ readings = <<>>
             /\ mon = NewMonitor /\ threads = NoThreads /\ clock = NewClock
          \/ /\ mon = StoppedMonitor(readings)
             /\ threads = [NoThreads EXCEPT ![1] = "dead"]
             /\ clock = [now |-> Len(readings) + 1, session_start |-> 1]

NextMetrics == GetMetrics

SpecMetrics == InitMetrics /\ [][NextMetrics]_vars

\* SpecBench: one call of run_framework_benchmark on a new FrameworkEvaluator
InitBench == Init /\ enable_performance_monitoring = TRUE

NextBench == RfbCall \/ RfbFirst \/ RfbRetry \/ RfbSummary \/ RfbReturn

SpecBench == InitBench /\ [][NextBench]_vars

\* SpecBenchFair: SpecBench with an orchestrator thread that keeps running (each
\* call of a task function terminates)
SpecBenchFair == SpecBench /\ WF_vars(NextBench)

\* SpecAgg: the aggregation functions applied to a result list
InitAgg ==
    /\ InitState
    /\ enable_performance_monitoring = TRUE
    /\ agg \in [op : {"input"}, results : AggLists, other : OtherLists,
                given : {{}}, out : {EmptyMap}]
    /\ suite = NoSuite
    /\ perf = NoPerf
    /\ tracker = NoTracker

NextAgg == AggSummary \/ AggAggregate \/ AggCompare

SpecAgg == InitAgg /\ [][NextAgg]_vars

\* SpecSuites: one call on a newly constructed QA, RAG or Search suite
InitSuites ==
    /\ InitState
    /\ enable_performance_monitoring = TRUE
    /\ agg = NoAgg
    /\ perf = NoPerf
    /\ suite \in Suites("qa") \cup Suites("rag") \cup Suites("search")
    /\ tracker = NoTracker

NextSuites ==
    \/ QAEvaluate
    \/ RagEvaluateRetrieval \/ RagEvaluateGeneration \/ RagEvaluateFullPipeline
    \/ SearchEvaluate

SpecSuites == InitSuites /\ [][NextSuites]_vars

\* ------------------------------------------------------------------ claims
\* C1: when the task function raises, evaluate_single_task and
\* execute_with_monitoring do not propagate the exception: they return a record
\* with success false, error_message the exception's message, quality_metrics
\* empty and raw_output None.
C1_TaskExceptionBecomesRecord ==
    last.task.kind = "raise" =>
        /\ IsRecordOfResult(last.result)
        /\ last.result.success = FALSE
        /\ last.result.error_message = last.task.msg
        /\ last.result.quality_metrics = EmptyMap
        /\ last.result.raw_output = None

C1_Witness ==
    /\ last.op = "evaluate_single_task"
    /\ last.task.kind = "raise"
    /\ last.result \in Seq2Set(evaluation_results)

\* C2: with performance monitoring enabled, the monitor evaluate_single_task
\* started is monitoring while the task function runs and is not monitoring when
\* the call returns, after a task that returned and after a task that raised.
C2_MonitorStoppedOnReturn ==
    enable_performance_monitoring =>
        /\ pc = "est_task" => mon.monitoring
        /\ pc = "est_return" => ~mon.monitoring

C2_Witness ==
    /\ enable_performance_monitoring
    /\ pc = "est_return"
    /\ est.task.kind = "raise"
    /\ mon.start_time = "set"

\* C3: a monitor used as a scoped resource (directly or through
\* monitor_performance) is monitoring inside the with-block and idle once the
\* block is left, whether the body completed or raised.
C3_ScopeStartsAndStops ==
    /\ pc = "with_body" => mon.monitoring
    /\ pc = "with_left" => ~mon.monitoring

C3_Witness ==
    /\ pc = "with_left"
    /\ scope.body = "raised"
    /\ scope.via = "monitor_performance"
    /\ ~mon.monitoring
    /\ mon.start_time = "set"

\* C10: whenever the task function returns normally and nothing but the quality
\* metric calculation fails, the record of evaluate_single_task and of
\* execute_with_monitoring has success true and carries the raw output.
C10_MetricFailureKeepsSuccess ==
    (last.task.kind = "return" /\ last.failed_step \in {None, "metric"}) =>
        /\ IsRecordOfResult(last.result)
        /\ last.result.success = TRUE
        /\ last.result.raw_output = last.task.value

\* the attempts of case c made so far in the benchmark run, as indices of history
AttemptsOf(c) == {k \in 1..Len(history) : history[k].case = c}
AttemptSucceeded(k) ==
    IsRecordOfResult(history[k].result) /\ history[k].result.success
TaskRaised(k) ==
    /\ IsRecordOfResult(history[k].result)
    /\ history[k].result.error_message \in Messages
BenchCases == 1..Len(rfb.test_cases)
BenchOver == pc \in {"rfb_return", "done"}

\* the records of the attempts in which the task function was executed, in order
RECURSIVE RecordsOf(_)
RecordsOf(h) ==
    IF h = <<>> THEN <<>>
    ELSE (IF Head(h).ran THEN <<Head(h).result>> ELSE <<>>) \o RecordsOf(Tail(h))

\* C4: with retry_failed, a failed test case is retried until an attempt
\* succeeds or it has been retried max_retries times; a case that fails on every
\* attempt is attempted 1 + max_retries times. (Stated for the cases whose task
\* function raised in every attempt.)
C4_RetriedUpToMaxRetries ==
    (BenchOver /\ rfb.retry_failed) =>
        \A c \in BenchCases :
            \/ \E k \in AttemptsOf(c) : ~TaskRaised(k)
            \/ Cardinality(AttemptsOf(c)) = 1 + rfb.max_retries

\* C5: every test case is attempted at most 1 + max_retries times, exactly once
\* when retry_failed is false or max_retries is 0, and never again after a first
\* attempt that succeeded.
C5_AttemptsBounded ==
    pc # "idle" =>
        \A c \in BenchCases :
            LET n == Cardinality(AttemptsOf(c)) IN
            /\ n <= 1 + rfb.max_retries
            /\ (~rfb.retry_failed \/ rfb.max_retries = 0) => n <= 1
            /\ (\E k \in AttemptsOf(c) :
                   /\ \A k2 \in AttemptsOf(c) : k <= k2
                   /\ AttemptSucceeded(k)) => n = 1
            /\ BenchOver => n >= 1

C5_Witness ==
    /\ pc = "done"
    /\ rfb.retry_failed
    /\ \E c \in BenchCases : Cardinality(AttemptsOf(c)) = 2
    /\ \E c \in BenchCases :
          /\ Cardinality(AttemptsOf(c)) = 1
          /\ \A k \in AttemptsOf(c) : AttemptSucceeded(k)

\* C6: the result list of run_framework_benchmark only grows: every attempt in
\* which the task function is executed adds one record at the end, records
\* already in the list keep their position and content, and the list is the
\* history of the executed attempts in execution order.
C6_step ==
    (pc # "idle" /\ pc' # "idle") =>
        /\ IsPrefix(rfb.results, rfb'.results)
        /\ Len(rfb'.results) - Len(rfb.results)
               = Len(RecordsOf(history')) - Len(RecordsOf(history))

C7_AttemptsInEvaluationResults ==
    BenchOver => evaluation_results = RecordsOf(history)

\* ---- C8
RECURSIVE SumOver(_, _, _)
SumOver(I, rs, field) ==
    IF I = {} THEN 0
    ELSE LET i == CHOOSE x \in I : TRUE IN
         rs[i][field] + SumOver(I \ {i}, rs, field)

RECURSIVE ScoreSum(_, _, _)
ScoreSum(I, rs, metric) ==
    IF I = {} THEN 0
    ELSE LET i == CHOOSE x \in I : TRUE IN
         rs[i].quality_metrics[metric] + ScoreSum(I \ {i}, rs, metric)

Succeeded(rs) == {i \in 1..Len(rs) : rs[i].success}
Having(rs, metric) == {i \in Succeeded(rs) : metric \in DOMAIN rs[i].quality_metrics}
MetricsOfSucceeded(rs) == UNION {DOMAIN rs[i].quality_metrics : i \in Succeeded(rs)}

\* q is the mean of the field over the successful results
IsMeanOver(q, rs, field) ==
    q[2] > 0 /\ q[1] * Cardinality(Succeeded(rs)) = q[2] * SumOver(Succeeded(rs), rs, field)

IsMeanScore(q, rs, metric) ==
    q[2] > 0 /\ q[1] * Cardinality(Having(rs, metric))
                    = q[2] * ScoreSum(Having(rs, metric), rs, metric)

IsSuccessRate(q, rs) ==
    q[2] > 0 /\ q[1] * Len(rs) = q[2] * Cardinality(Succeeded(rs))

\* C8: for a (non-empty) result list, the framework summary and
\* calculate_aggregate_metrics report success_rate = successful / all and take
\* the averages of execution time, memory and CPU and every quality-metric
\* aggregate (average, min, max, count) over the successful results only.
C8_SummaryOverSuccessfulOnly ==
    (agg.op \in {"framework_summary", "aggregate_metrics"} /\ agg.results # <<>>) =>
        LET rs == agg.results
            out == agg.out
            none == Succeeded(rs) = {}
        IN
        /\ IsSuccessRate(out.success_rate, rs)
        /\ (agg.op = "framework_summary" \/ ~none) =>
              /\ IsMeanOver(out.average_execution_time, rs, "execution_time")
              /\ IsMeanOver(out.average_memory_usage, rs, "memory_usage")
              /\ IsMeanOver(out.average_cpu_usage, rs, "cpu_usage")
        /\ (agg.op = "aggregate_metrics" /\ none) =>
              DOMAIN out = {"success_rate", "total_use_cases"}
        /\ agg.op = "framework_summary" =>
              /\ DOMAIN out.quality_metrics = MetricsOfSucceeded(rs)
              /\ \A m \in MetricsOfSucceeded(rs) :
                    LET a == out.quality_metrics[m] IN
                    /\ IsMeanScore(a.average, rs, m)
                    /\ a.count = Cardinality(Having(rs, m))
                    /\ \A i \in Having(rs, m) :
                          a.min <= rs[i].quality_metrics[m]
                          /\ rs[i].quality_metrics[m] <= a.max
                    /\ \E i \in Having(rs, m) : rs[i].quality_metrics[m] = a.min
                    /\ \E i \in Having(rs, m) : rs[i].quality_metrics[m] = a.max
        /\ (agg.op = "aggregate_metrics" /\ ~none) =>
              /\ DOMAIN out.average_quality_scores = MetricsOfSucceeded(rs)
              /\ \A m \in MetricsOfSucceeded(rs) :
                    IsMeanScore(out.average_quality_scores[m], rs, m)

C8_Witness ==
    /\ agg.op = "aggregate_metrics"
    /\ Len(agg.results) = 3
    /\ Cardinality(Succeeded(agg.results)) = 2
    /\ \E i \in 1..3 : /\ ~agg.results[i].success
                       /\ "accuracy" \in DOMAIN agg.results[i].quality_metrics
    /\ QuotEq(agg.out.success_rate, <<2, 3>>)

\* ---- C9
RankedMetrics == {"execution_time", "cost", "quality", "success_rate"}

\* C9: compare_frameworks returns one summary per given framework and rankings
\* in which every given framework appears, the better framework first.
C9_RankingsCoverFrameworks ==
    agg.op = "compare_frameworks" =>
        /\ DOMAIN agg.out.frameworks = agg.given
        /\ \A f \in agg.given : \A metric \in RankedMetrics :
              /\ metric \in DOMAIN agg.out.rankings
              /\ f \in Seq2Set(agg.out.rankings[metric])
        /\ \A metric \in RankedMetrics \cap {"success_rate"} :
              metric \in DOMAIN agg.out.rankings =>
                 LET r == agg.out.rankings[metric] IN
                 \A a, b \in 1..Len(r) :
                    a < b => ~QuotLess(agg.out.frameworks[r[a]].success_rate,
                                       agg.out.frameworks[r[b]].success_rate)

\* the primitives a suite call runs
KeysOfCall ==
    CASE suite.op = "evaluate_retrieval" -> Seq2Set(RetrievalOrder)
      [] suite.op = "evaluate_generation" -> Seq2Set(GenerationOrder)
      [] OTHER -> SuiteKeys(suite.kind)

\* the call returned a mapping with one entry per enabled primitive it runs:
\* a zero score with the error message for a primitive that raised, and the
\* primitive's own result for every other one
FailuresIsolated ==
    /\ suite.out.kind = "return"
    /\ DOMAIN suite.out.value = KeysOfCall \cap suite.metrics
    /\ \A k \in KeysOfCall \cap suite.metrics :
          IF suite.outcomes[k].kind = "raise"
          THEN /\ suite.out.value[k].score = 0
               /\ suite.out.value[k].metadata =
                      [e \in {"error"} |-> suite.outcomes[k].msg]
          ELSE suite.out.value[k] = Calculated(k, suite.outcomes[k])

SomeRaised ==
    \E k \in KeysOfCall \cap suite.metrics : suite.outcomes[k].kind = "raise"

\* C11: QAMetrics.evaluate returns an entry for every enabled metric; a metric
\* whose calculate raises gets a zero-score entry with the error message in its
\* metadata and the entries of the other metrics are what they return.
C11_QAFailuresIsolated ==
    (suite.kind = "qa" /\ suite.op = "evaluate") => FailuresIsolated

C11_Witness ==
    /\ suite.kind = "qa" /\ suite.op = "evaluate"
    /\ Cardinality(suite.metrics) >= 2
    /\ SomeRaised
    /\ \E k \in suite.metrics : suite.outcomes[k].kind = "score"
    /\ FailuresIsolated

\* C12: when an enabled primitive raises inside RAGMetrics.evaluate_retrieval,
\* evaluate_generation or evaluate_full_pipeline or inside SearchMetrics.evaluate,
\* the call still returns a mapping with a zero-score entry and error note for
\* it and the normal results of the other enabled primitives.
C12_RagSearchFailuresIsolated ==
    (suite.kind \in {"rag", "search"} /\ suite.op # "new" /\ SomeRaised)
        => FailuresIsolated

\* the cases of the first loop's attempts, in the order they were made
FirstPassCases ==
    LET first == SelectSeq(history, LAMBDA h : ~h.retry)
    IN  [k \in 1..Len(first) |-> first[k].case]

AllAttemptedInOrder == FirstPassCases = [k \in BenchCases |-> k]

SummaryStored ==
    /\ rfb.framework_name \in DOMAIN framework_summaries
    /\ framework_summaries[rfb.framework_name] =
           calculate_framework_summary(rfb.framework_name, rfb.results)

\* C13: run_framework_benchmark attempts every test case of the list in list
\* order whatever the earlier cases did, and (each task call terminating) returns
\* with a summary stored for the framework, for every combination of outcomes.
C13_EveryCaseAttemptedAndReturns ==
    /\ [](pc \in {"rfb_retry", "rfb_summary", "rfb_return", "done"}
             => AllAttemptedInOrder)
    /\ [](pc = "done" => SummaryStored)
    /\ (pc # "done" ~> pc = "done")

C13_Witness ==
    /\ pc = "done"
    /\ Len(rfb.test_cases) = MaxCases
    /\ AllAttemptedInOrder
    /\ \A k \in 1..Len(history) : ~AttemptSucceeded(k)
    /\ SummaryStored
    /\ framework_summaries[rfb.framework_name].success_rate[1] = 0

\* the sampler threads of the monitor that are inside _monitor_loop
Running == {t \in 1..MaxThreads : Alive(t)}

\* C14: at any time at most one sampler thread of a monitor is running the
\* sampling loop, after any sequence of start_monitoring and stop_monitoring
\* calls, a start after a stop whose join timed out included.
C14_AtMostOneSampler == Cardinality(Running) <= 1

\* C15: once a start_monitoring call that begins a session has returned, the
\* snapshot list holds only snapshots captured after that start.
C15_OnlySnapshotsOfSession ==
    \A i \in 1..Len(mon.snapshots) :
        mon.snapshots[i].timestamp > clock.session_start

\* C16: the snapshot list of a monitor is ordered by capture time: each
\* snapshot's timestamp is strictly later than that of every snapshot before it.
C16_SnapshotsTimeOrdered ==
    \A i, j \in 1..Len(mon.snapshots) :
        i < j => mon.snapshots[i].timestamp < mon.snapshots[j].timestamp

\* a sampler that wakes up and finds the monitor stopped leaves its loop
ExitsAtWakeUp ==
    \A t \in 1..MaxThreads :
        (/\ threads[t] = "loop" /\ threads'[t] # threads[t]
         /\ ~mon.monitoring /\ ~mon'.monitoring)
            => (threads'[t] = "dead" /\ mon'.snapshots = mon.snapshots)

\* C17: after stop_monitoring, if monitoring is not started again, the sampler
\* thread eventually terminates: at its next wake-up it leaves the loop without
\* capturing another snapshot.
C17_SamplerTerminatesAfterStop ==
    /\ [][ExitsAtWakeUp]_vars
    /\ (<>[](~mon.monitoring)) => <>[](Running = {})

C17_Witness ==
    /\ ~mon.monitoring
    /\ mon.monitor_thread # 0
    /\ threads[mon.monitor_thread] = "dead"
    /\ Len(mon.snapshots) >= 1
    /\ Running = {}

\* a step of sampler thread t alone that ends its capture attempt
EndsAttempt(t) ==
    /\ UNCHANGED <<pc, calls>>
    /\ threads[t] = "body"
    /\ threads'[t] # "body"

\* C18: an error raised while a sample is captured never ends the sampler and
\* never reaches the monitored task; while the monitor is monitoring the sampler
\* goes on to later attempts, one attempt per sampling interval (it sleeps for
\* the interval between an attempt and its next while test).
C18_ErrorsKeepSamplerPaced ==
    [][\A t \in 1..MaxThreads :
          EndsAttempt(t) =>
              /\ threads'[t] = "append"
              /\ UNCHANGED <<est, rfb, scope, evaluation_results>>]_vars

\* the exact sum of one reading over the snapshots held at the call
RECURSIVE ExactSum(_, _)
ExactSum(snaps, field) ==
    IF snaps = <<>> THEN 0 ELSE Head(snaps)[field] + ExactSum(Tail(snaps), field)

\* a is the mean of the reading, to within the rounding of the float operations
\* (one step of the floats around the peak for each operation)
IsMeanOfSnapshots(a, field) ==
    LET n == Len(perf.held)
        total == ExactSum(perf.held, field)
        slack == (n + 1) * Ulp(total) IN
    /\ n * a <= total + n * slack
    /\ total <= n * a + n * slack

IsPeakOfSnapshots(p, field) ==
    /\ \E i \in 1..Len(perf.held) : perf.held[i][field] = p
    /\ \A i \in 1..Len(perf.held) : perf.held[i][field] <= p

\* C19: for any non-empty snapshot list get_metrics returns the peaks (the
\* maxima) and the averages (the means) with each average <= its peak, so that
\* building the PerformanceMetrics object never fails its validators.
C19_AveragesWithinPeaks ==
    (perf.op = "get_metrics" /\ perf.held # <<>>) =>
        /\ perf.out.kind = "return"
        /\ IsPeakOfSnapshots(perf.out.value.peak_memory_mb, "memory_mb")
        /\ IsPeakOfSnapshots(perf.out.value.peak_cpu_percent, "cpu_percent")
        /\ IsMeanOfSnapshots(perf.out.value.average_memory_mb, "memory_mb")
        /\ IsMeanOfSnapshots(perf.out.value.average_cpu_percent, "cpu_percent")
        /\ perf.out.value.average_memory_mb <= perf.out.value.peak_memory_mb
        /\ perf.out.value.average_cpu_percent <= perf.out.value.peak_cpu_percent

\* C20: whenever the monitor holds no snapshot (before any start, or after a
\* start and a stop with no snapshot captured in between) get_metrics returns
\* a metrics object with execution_time, peak and average memory and peak and
\* average CPU all 0 and an empty snapshot list.
C20_ZeroMetricsWithoutSnapshots ==
    (perf.op = "get_metrics" /\ perf.held = <<>>) =>
        /\ perf.out.kind = "return"
        /\ perf.out.value.execution_time = 0
        /\ perf.out.value.peak_memory_mb = 0
        /\ perf.out.value.average_memory_mb = 0
        /\ perf.out.value.peak_cpu_percent = 0
        /\ perf.out.value.average_cpu_percent = 0
        /\ perf.out.value.snapshots = <<>>

C20_Witness ==
    /\ perf.op = "get_metrics" /\ perf.held = <<>>
    /\ perf.out.kind = "return" /\ perf.out.value.execution_time = 0
    /\ mon.start_time = "set" /\ ~mon.monitoring
    /\ calls = MaxMonitorCalls

\* the pricing table has an entry for the usage's provider and model
HasPricing(pricing_data, usage) ==
    /\ usage.provider \in DOMAIN pricing_data
    /\ usage.model \in DOMAIN pricing_data[usage.provider]

\* C21: for every usage record whose provider and model have a pricing entry,
\* calculate_cost returns input_cost = input_tokens/1000 x input rate,
\* output_cost = output_tokens/1000 x output rate and total_cost = input_cost +
\* output_cost with the rates of that entry; 2000 input and 1000 output tokens
\* at rates 0.003 and 0.015 give 0.006, 0.015 and 0.021.
C21_CostFromPricingEntry ==
    (cost.op = "calculate_cost" /\ HasPricing(tracker.pricing_data, cost.usage)) =>
        LET usage == cost.usage
            entry == tracker.pricing_data[usage.provider][usage.model] IN
        /\ cost.out.kind = "return"
        /\ cost.out.value.input_rate_per_1k = entry.input
        /\ cost.out.value.output_rate_per_1k = entry.output
        /\ cost.out.value.input_cost = usage.input_tokens * entry.input
        /\ cost.out.value.output_cost = usage.output_tokens * entry.output
        /\ cost.out.value.total_cost
               = cost.out.value.input_cost + cost.out.value.output_cost
        /\ (usage.input_tokens = 2000 /\ usage.output_tokens = 1000
                /\ entry = Pricing(3000, 15000)) =>
               /\ cost.out.value.input_cost = 6000000
               /\ cost.out.value.output_cost = 15000000
               /\ cost.out.value.total_cost = 21000000

\* C22: calculate_cost never fails, for any recorded usage and any pricing
\* table reached through update_pricing; for a usage whose provider or model is
\* unknown to the pricing table (also one recorded with an unrecognised
\* provider name) it returns a breakdown with both rates and all costs 0.0.
C22_CalculateCostNeverFails ==
    cost.op = "calculate_cost" =>
        /\ cost.out.kind = "return"
        /\ ~HasPricing(tracker.pricing_data, cost.usage) =>
               /\ cost.out.value.input_rate_per_1k = 0
               /\ cost.out.value.output_rate_per_1k = 0
               /\ cost.out.value.input_cost = 0
               /\ cost.out.value.output_cost = 0
               /\ cost.out.value.total_cost = 0

\* a step that is a record_usage call
IsRecordUsage == wall' # wall /\ cost'.op = "record_usage"

\* C23: the usage record list is append-only: a record_usage call that returns
\* adds exactly its record at the end of the list, and no other tracker
\* operation (calculate_cost, get_total_cost, get_usage_summary,
\* compare_providers, update_pricing, export_usage_data), nor a record_usage
\* call that raises, removes, reorders or changes a record of the list.
C23_UsageRecordsAppendOnly ==
    [][IF IsRecordUsage /\ cost'.out.kind = "return"
       THEN tracker'.usage_records
               = Append(tracker.usage_records, cost'.out.value)
       ELSE tracker'.usage_records = tracker.usage_records]_vars

C23_Witness ==
    /\ Len(tracker.usage_records) = 2
    /\ cost.op = "export_usage_data"
    /\ cost.out.kind = "return"
    /\ calls = 2

\* the usage records made while the task of the call in progress ran: from
\* the reading of start_time to the reading execution_time was taken from
InWindow(r) == est.start_time <= r.at /\ r.at <= est.end_time
RecordsInWindow == SelectSeq(tracker.usage_records, InWindow)

\* per provider, the sum of the costs of the records of the window
WindowCosts ==
    [p \in {ProviderValue(RecordsInWindow[i].provider) :
                i \in 1..Len(RecordsInWindow)} |->
        LET OfProvider(r) == ProviderValue(r.provider) = p IN
        TotalCost(tracker.pricing_data, SelectSeq(RecordsInWindow, OfProvider))]

\* C24: the api_costs of a successful evaluate_single_task result are, per
\* provider, the sum of the costs of exactly the usage records recorded during
\* the task's own time window, from its start to its completion; a record made
\* outside the window is never attributed to the task.
C24_CostsOfOwnWindow ==
    (pc = "est_return" /\ last.result.success) =>
        last.result.api_costs = WindowCosts

\* ---- C25
\* The configuration a load_config call asked for: the current settings
\* overwritten by the file's values.
Requested(c) == DictUpdate(c.before, c.file.config_data)

LoadedInvalid == call.op = "load_config" /\ call.file.exists /\ call.file.suffix \in {".yaml", ".yml", ".json"} /\ EvaluationConfig(Requested(call)).kind = "raise"

\* C25: a load_config call on a file that holds an invalid value (a maximum
\* timeout below the default timeout, an unsupported export format, an
\* unknown ROUGE type) ends with an exception at its caller; it never returns
\* normally with the previous settings kept.
C25_InvalidConfigFailsAtLoad ==
    LoadedInvalid => call.out.kind = "raise"

\* ---- C26
SelfBleu == call.op = "bleu" /\ call.out # Pending /\ call.expected = call.actual /\ Len(call.actual) >= 1

\* C26: the BLEU metric of a text of at least one word against itself is 1.0,
\* with every n-gram precision for n = 1..max_n equal to 1.0 and a brevity
\* penalty of 1.0, whatever the number of words and whatever max_n.
C26_BleuOfTextAgainstItself ==
    SelfBleu =>
        /\ call.out.kind = "return"
        /\ call.out.value.score = FloatOne
        /\ call.out.value.metadata.brevity_penalty = FloatOne
        /\ \A n \in 1..call.max_n : LET p == call.out.value.metadata.precisions[n] IN p[1] = p[2]

\* ---- C27
\* The calendar date a phrase states, read in the notation it is written in.
WrittenDate(ph) ==
    CASE ph.form = "iso" -> Datetime(ph.groups[1].num, ph.groups[2].num, ph.groups[3].num)
      [] ph.form \in {"us_slash", "us_dash"} -> Datetime(ph.groups[3].num, ph.groups[1].num, ph.groups[2].num)
      [] ph.form = "written" /\ month_name_to_number(ph.groups[1].text) # 0 -> Datetime(ph.groups[3].num, month_name_to_number(ph.groups[1].text), ph.groups[2].num)
      [] OTHER -> Raised("ValueError")

WrittenDates(content) == {WrittenDate(content[i]).value : i \in {j \in DOMAIN content : WrittenDate(content[j]).kind = "return"}}

FreshnessDone == call.op = "freshness" /\ call.out # Pending

\* C27: the freshness metric extracts every date written in ISO, US or
\* written-month form as that calendar date; the score is the largest, over
\* those dates, of 1.0 for a date after the query date, 1 - age/max_age within
\* the window and 0.0 beyond it; the score 0.0 with the no-dates reason is
\* given only to a content that holds no date.
C27_FreshnessOfWrittenDates ==
    FreshnessDone =>
        LET written == WrittenDates(call.content)
            result == call.out.value
        IN  /\ call.out.kind = "return"
            /\ Seq2Set(result.dates) = written
            /\ (result.reason = "No dates found in content") <=> (written = {})
            /\ written # {} =>
                  /\ \E d \in written : result.score = calculate_date_freshness(call.max_age_days, d, call.query_date)
                  /\ \A d \in written : ScoreLeq(calculate_date_freshness(call.max_age_days, d, call.query_date), result.score)

\* ---- C28
SplitDone == call.op \in {"split_context", "split_content"} /\ call.out # Pending

\* C28: every chunk a text-splitting helper returns is at most the helper's
\* size limit long, whatever the text: 500 characters for the context
\* relevance and query-answer relevance helpers, 300 for the groundedness one.
C28_ChunksWithinLimit ==
    SplitDone => \A i \in DOMAIN call.out.value : call.out.value[i].length <= call.max_chunk_size

\* ---- C29
MonitorUntouched == mon' = mon /\ threads' = threads /\ clock' = clock /\ captured' = captured /\ pc' = pc

\* C29: start_monitoring on a monitor that is monitoring leaves the snapshots,
\* the start time and the sampler thread as they are and starts no thread;
\* stop_monitoring on an idle monitor changes nothing either.
C29_StartStopNoOps ==
    [][/\ (ManualStart /\ mon.monitoring) => MonitorUntouched
       /\ (ManualStop /\ ~mon.monitoring) => MonitorUntouched]_vars

\* start_monitoring was called on a monitoring monitor that held a snapshot
C29_Witness ==
    /\ last.op = "start_monitoring"
    /\ last.monitoring
    /\ mon.monitoring
    /\ Len(mon.snapshots) >= 1

\* ---- C30
\* The monitor was started at some time, it is not monitoring, and the client
\* is past the stop call that cleared the flag.
StopHasReturned == ~mon.monitoring /\ mon.start_time # None /\ pc \in {"idle", "with_left"}

\* C30: once stop_monitoring has returned the snapshot list stays as it is
\* until the next start_monitoring (no sampler appends to it), so get_metrics
\* calls made after the stop all see the same snapshots.
C30_NoSnapshotAfterStop ==
    [][(StopHasReturned /\ StopHasReturned') => mon'.snapshots = mon.snapshots]_vars

====
